---- MODULE Spec2Model ----
(***************************************************************************)
(* Transcription / synthesis / delivery pipeline of skynet-mvp.            *)
(*                                                                         *)
(* One conversation record, its synthesis row and the orchestrators of     *)
(* src/services that mutate them.  Every orchestrator invocation is run by *)
(* a request process; a step of a process is one repository access or one  *)
(* provider-client call, in the order of the source.  Time is counted in   *)
(* half seconds, so that int() truncation of elapsed seconds is visible.   *)
(* Optional (nullable) values are <<>> for None and <<v>> for a value v.   *)
(***************************************************************************)
EXTENDS Integers, Sequences, FiniteSets, TLC

(***************************** bounds **************************************)
\* An upstream call takes 0..MaxLatency half seconds.
MaxLatency == 1
\* The LLM answers with one of NumResults distinct structured results.
NumResults == 2
\* A conversation has at most MaxParticipants participants.
MaxParticipants == 2
\* The repositories hold at most MaxConversations conversations over time.
MaxConversations == 2

(************************* program constants *******************************)
\* max_retries default of the provider clients
MaxRetries == 3
\* minimum transcript length (after strip) accepted by the synthesis client
MinTranscriptLen == 50

Procs == {1, 2}

None == <<>>
Some(v) == <<v>>

\* ConversationStatus
PENDING == "pending"
TRANSCRIBING == "transcribing"
SYNTHESIZING == "synthesizing"
COMPLETED == "completed"
FAILED == "failed"
ConversationStatus == {PENDING, TRANSCRIBING, SYNTHESIZING, COMPLETED, FAILED}

\* TranscriptionProvider
SONIOX == "soniox"
WHISPER == "whisper"

(****************************** strings ************************************)
\* Texts are sequences of characters; " " stands for any whitespace.
IsSpace(c) == c = " "

\* Variant of WordCount: len(text.split(" ")), which counts the empty strings
\* between adjacent blanks.
WordCountSingleBlank(s) == Cardinality({i \in 1..Len(s) : IsSpace(s[i])}) + 1

\* len(text.split()): the number of maximal runs of non-whitespace.
WordCount(s) ==
  Cardinality({i \in 1..Len(s) : ~IsSpace(s[i]) /\ (i = 1 \/ IsSpace(s[i - 1]))})

RECURSIVE LStrip(_)
LStrip(s) == IF s # <<>> /\ IsSpace(Head(s)) THEN LStrip(Tail(s)) ELSE s

RECURSIVE RStrip(_)
RStrip(s) ==
  IF s # <<>> /\ IsSpace(s[Len(s)]) THEN RStrip(SubSeq(s, 1, Len(s) - 1)) ELSE s

\* str.strip()
Strip(s) == RStrip(LStrip(s))

\* The texts a transcription upstream may answer with: empty, a short
\* utterance with irregular spacing, and a text long enough to synthesize.
TextEmpty == <<>>
TextShort == <<" ", "o", "k", " ", " ", "g", "o", " ">>
TextLong == [i \in 1..(MinTranscriptLen + 4) |-> IF i % 5 = 0 THEN " " ELSE "w"]
Texts == {TextEmpty, TextShort, TextLong}

(************************** persisted records ******************************)
\* A Conversation row as created by upload_audio; exists = FALSE: no row.
NoConversation ==
  [exists |-> FALSE, status |-> PENDING, transcript |-> None,
   transcript_word_count |-> None, transcription_provider |-> None,
   synthesis_provider |-> None, processing_time_seconds |-> None,
   error_message |-> None]

NewConversation == [NoConversation EXCEPT !.exists = TRUE]

\* BaseRepository.update: a missing row is left alone (returns None), else
\* every given attribute is set and the row committed.
RepoUpdate(row, kwargs) ==
  IF ~row.exists THEN row
  ELSE [f \in DOMAIN row |-> IF f \in DOMAIN kwargs THEN kwargs[f] ELSE row[f]]

VARIABLES
  apiKey,   \* SonioxClient.api_key ("" when not configured)
  conv,     \* the conversations row
  syn,      \* the syntheses row of the conversation (the first, if several)
  synCount, \* the number of syntheses rows of the conversation
  pc,       \* pc[p]: where request process p stands
  loc,      \* loc[p]: the local variables of p's invocation
  last,     \* what the most recently finished invocation returned or raised
  participants, \* the e-mail addresses of the conversation's participants rows
  db        \* the three tables as the repositories see them, over several
            \* conversations

vars == <<apiKey, conv, syn, synCount, pc, loc, last, participants, db>>

(*************************** provider clients ******************************)
\* What one upstream HTTP call does: it answers with a text, or raises an
\* OpenAIError (a transient APIError or an AuthenticationError, which is a
\* subclass of OpenAIError), or raises some other exception.
UpOk(t) == [kind |-> "ok", text |-> t]
UpErr(k) == [kind |-> k, text |-> <<>>]
OpenAIErrors == {"openai_api_error", "openai_auth_error"}
OtherErrors == {"other_error"}
WhisperUpstream == {UpOk(t) : t \in Texts} \cup {UpErr(k) : k \in OpenAIErrors \cup OtherErrors}

\* 2 ** attempt
RECURSIVE Pow2(_)
Pow2(n) == IF n = 0 THEN 1 ELSE 2 * Pow2(n - 1)

\* Variant of BackoffSleep: the same wait after every failed attempt.
BackoffSleepConstant(attempt) == 2 * 2

\* time.sleep(wait_time) with wait_time = 2 ** attempt seconds, in half seconds
BackoffSleep(attempt) == 2 * Pow2(attempt)

\* WhisperClient.transcribe: the retry loop from attempt on, where outs[k] is
\* what the k-th upstream call does.  Returns the outcome, the number of
\* upstream calls made and the sleeps taken.
RECURSIVE WhisperLoop(_, _, _)
WhisperLoop(outs, attempt, sleeps) ==
  LET o == outs[attempt] IN
  IF o.kind = "ok"
    THEN [ok |-> TRUE, text |-> o.text, err |-> "", calls |-> attempt, sleeps |-> sleeps]
  ELSE IF o.kind \in OpenAIErrors
    THEN IF attempt < MaxRetries
           THEN WhisperLoop(outs, attempt + 1, Append(sleeps, BackoffSleep(attempt)))
           ELSE [ok |-> FALSE, text |-> <<>>, err |-> o.kind, calls |-> attempt,
                 sleeps |-> sleeps]
  ELSE [ok |-> FALSE, text |-> <<>>, err |-> o.kind, calls |-> attempt, sleeps |-> sleeps]

WhisperTranscribe(outs) == WhisperLoop(outs, 1, <<>>)

\* Every way a WhisperClient.transcribe call can end when each upstream call
\* behaves as one of ups.
WhisperResults(ups) == {WhisperTranscribe(outs) : outs \in [1..MaxRetries -> ups]}
AnyWhisperResult == WhisperResults(WhisperUpstream)
\* The upstream answers with a long text or fails with a non-API exception.
PlainWhisperResult == WhisperResults({UpOk(TextLong), UpErr("other_error")})
\* The upstream answers at once or fails at once with a non-API exception.
PromptWhisperResult ==
  WhisperResults({UpOk(t) : t \in Texts} \cup {UpErr("other_error")})

\* The audio stream handed to transcribe_audio: a file object of AudioLen
\* bytes.  pos is its position; starts logs the position at which each upstream
\* call found it.
AudioLen == 2
NewStream == [pos |-> 0, starts |-> <<>>]

\* audio_file.seek(0)
Seek0(a) == [a EXCEPT !.pos = 0]

\* One upstream call reads up to n bytes from the current position.
UpstreamRead(a, n) ==
  [pos |-> IF a.pos + n > AudioLen THEN AudioLen ELSE a.pos + n,
   starts |-> Append(a.starts, a.pos)]

\* Variant of WhisperStream: the stream is not rewound before a retry.
RECURSIVE WhisperStreamNoSeek(_, _, _, _)
WhisperStreamNoSeek(outs, reads, attempt, a) ==
  LET o == outs[attempt]
      read == UpstreamRead(a, reads[attempt])
  IN IF o.kind \in OpenAIErrors /\ attempt < MaxRetries
       THEN WhisperStreamNoSeek(outs, reads, attempt + 1, read)
       ELSE read

\* WhisperClient.transcribe, lines 69-126, as seen by the stream: what the
\* retry loop from attempt on does to the stream a, where the k-th upstream
\* call does outs[k] after reading up to reads[k] bytes.
RECURSIVE WhisperStream(_, _, _, _)
WhisperStream(outs, reads, attempt, a) ==
  LET o == outs[attempt]
      read == UpstreamRead(a, reads[attempt])
  IN IF o.kind \in OpenAIErrors /\ attempt < MaxRetries
       THEN WhisperStream(outs, reads, attempt + 1, Seek0(read))
       ELSE read

\* SonioxClient.is_available
SonioxIsAvailable(key) == key # ""

\* SonioxClient.transcribe: a stub that raises NotImplementedError whether or
\* not the key is configured; it makes no upstream call.
SonioxTranscribe(key) ==
  [ok |-> FALSE, text |-> <<>>,
   err |-> IF ~SonioxIsAvailable(key) THEN "soniox_requires_api_key"
           ELSE "soniox_integration_pending",
   calls |-> 0, sleeps |-> <<>>]

RECURSIVE SumSeq(_)
SumSeq(s) == IF s = <<>> THEN 0 ELSE Head(s) + SumSeq(Tail(s))

(*********************** transcription orchestrator ************************)
\* Variant of GetProviderOrder: the default order tries Whisper first.
GetProviderOrderWhisperFirst(prefer_provider, key) ==
  IF prefer_provider = Some(WHISPER) THEN <<WHISPER>>
  ELSE IF prefer_provider = Some(SONIOX) THEN <<SONIOX, WHISPER>>
  ELSE IF SonioxIsAvailable(key) THEN <<WHISPER, SONIOX>>
  ELSE <<WHISPER>>

\* Variant of GetProviderOrder: a pinned Whisper is treated like the default.
GetProviderOrderPinIgnored(prefer_provider, key) ==
  IF prefer_provider = Some(SONIOX) THEN <<SONIOX, WHISPER>>
  ELSE IF SonioxIsAvailable(key) THEN <<SONIOX, WHISPER>>
  ELSE <<WHISPER>>

\* Variant of GetProviderOrder: a pinned Soniox has no fallback.
GetProviderOrderNoFallback(prefer_provider, key) ==
  IF prefer_provider = Some(WHISPER) THEN <<WHISPER>>
  ELSE IF prefer_provider = Some(SONIOX) THEN <<SONIOX>>
  ELSE IF SonioxIsAvailable(key) THEN <<SONIOX, WHISPER>>
  ELSE <<WHISPER>>

\* TranscriptionService._get_provider_order
GetProviderOrder(prefer_provider, key) ==
  IF prefer_provider = Some(WHISPER) THEN <<WHISPER>>
  ELSE IF prefer_provider = Some(SONIOX) THEN <<SONIOX, WHISPER>>
  ELSE IF SonioxIsAvailable(key) THEN <<SONIOX, WHISPER>>
  ELSE <<WHISPER>>

\* int(processing_time): elapsed half seconds truncated to whole seconds
IntSeconds(elapsed) == elapsed \div 2

\* f"All transcription providers failed. Last error: {last_error}"
AllFailedMessage(last_error) ==
  <<"All transcription providers failed. Last error: ",
    IF last_error = None THEN "None" ELSE last_error[1]>>

\* No invocation is in progress.
AllIdle == \A q \in Procs : pc[q] = "idle"

Snapshot == [conv |-> conv, syn |-> syn, participants |-> participants]

\* The rows as they are before an invocation; an invocation that begins while
\* another is in progress has no state "before" it to compare with.
RowsBefore == IF AllIdle THEN Some(Snapshot) ELSE None

\* The locals of a request process before an invocation.
Blank ==
  [op |-> "none", pre |-> None,
   prefer |-> None, providers |-> <<>>, idx |-> 0, transcript_result |-> None,
   provider_used |-> None, last_error |-> None, elapsed |-> 0, calls |-> <<>>,
   force_regenerate |-> FALSE, transcript |-> None, existing_synthesis |-> None,
   synthesis_result |-> None, prev |-> None,
   custom_recipients |-> None, recipients |-> <<>>, sent_at |-> None,
   outs |-> <<>>, audio |-> NewStream]

\* The observable end of an invocation: what it returned or raised, the
\* provider calls it made, and the rows as they were when it began.
Outcome(op, how, err, val, l) ==
  [op |-> op, how |-> how, err |-> err, val |-> val, calls |-> l.calls, pre |-> l.pre,
   prefer |-> l.prefer, force_regenerate |-> l.force_regenerate,
   custom_recipients |-> l.custom_recipients, prev |-> l.prev,
   transcript |-> l.transcript, outs |-> l.outs, recipients |-> l.recipients]

NoOutcome ==
  [op |-> "none", how |-> "none", err |-> "", val |-> None, calls |-> <<>>, pre |-> None,
   prefer |-> None, force_regenerate |-> FALSE, custom_recipients |-> None, prev |-> None,
   transcript |-> None, outs |-> <<>>, recipients |-> <<>>]

\* An entry of the log of client calls of an invocation: the client called,
\* the error it raised ("" when it returned), the text it returned and the
\* number of upstream calls it made.
ClientCall(client, res, text) ==
  [provider |-> client, err |-> res.err, text |-> text, upstream |-> res.calls,
   sleeps |-> res.sleeps]

PreferProviders == {None, Some(SONIOX), Some(WHISPER)}

\* upload_audio: conversation_repo.create(..., status=PENDING)
CreateConversation ==
  /\ ~conv.exists
  /\ conv' = NewConversation
  /\ UNCHANGED <<apiKey, db, syn, synCount, pc, loc, last, participants>>

\* Variant of TranscribeGet: the conversation is not looked up.
TranscribeGetNoLookup(p, prefer) ==
  /\ pc[p] = "idle"
  /\ loc' = [loc EXCEPT ![p] = [Blank EXCEPT !.op = "transcribe",
                                             !.pre = RowsBefore,
                                             !.prefer = prefer]]
  /\ pc' = [pc EXCEPT ![p] = "t_mark"]
  /\ last' = NoOutcome
  /\ UNCHANGED <<apiKey, db, conv, syn, synCount, participants>>

\* transcribe_audio, lines 82-93: load the conversation or raise not found.
TranscribeGet(p, prefer) ==
  /\ pc[p] = "idle"
  /\ IF ~conv.exists
       THEN /\ last' = Outcome("transcribe", "raise", "conversation_not_found", None,
                               [Blank EXCEPT !.pre = RowsBefore, !.prefer = prefer])
            /\ UNCHANGED <<pc, loc>>
       ELSE /\ loc' = [loc EXCEPT ![p] = [Blank EXCEPT !.op = "transcribe",
                                                      !.pre = RowsBefore,
                                                      !.prefer = prefer]]
            /\ pc' = [pc EXCEPT ![p] = "t_mark"]
            /\ last' = NoOutcome
  /\ UNCHANGED <<apiKey, db, conv, syn, synCount, participants>>

\* Variant of TranscribeMark: the status update is left out.
TranscribeMarkNoStatus(p) ==
  /\ pc[p] = "t_mark"
  /\ loc' = [loc EXCEPT ![p].providers = GetProviderOrder(loc[p].prefer, apiKey),
                        ![p].idx = 1]
  /\ pc' = [pc EXCEPT ![p] = "t_try"]
  /\ UNCHANGED <<apiKey, db, conv, syn, synCount, last, participants>>

\* transcribe_audio, lines 95-107: status = TRANSCRIBING, then the order.
TranscribeMark(p) ==
  /\ pc[p] = "t_mark"
  /\ conv' = RepoUpdate(conv, [status |-> TRANSCRIBING])
  /\ loc' = [loc EXCEPT ![p].providers = GetProviderOrder(loc[p].prefer, apiKey),
                        ![p].idx = 1]
  /\ pc' = [pc EXCEPT ![p] = IF GetProviderOrder(loc[p].prefer, apiKey) = <<>>
                               THEN "t_end" ELSE "t_try"]
  /\ UNCHANGED <<apiKey, db, syn, synCount, last, participants>>

\* Variant of TryProvider: only the first error is remembered.
TryProviderFirstError(l, key, r, lat) ==
  LET provider == l.providers[l.idx] IN
  IF provider = SONIOX /\ ~SonioxIsAvailable(key)
    THEN [l EXCEPT !.idx = l.idx + 1]
  ELSE LET res == IF provider = SONIOX THEN SonioxTranscribe(key) ELSE r
           dur == IF provider = SONIOX THEN 0 ELSE lat + SumSeq(res.sleeps)
           called == [l EXCEPT !.calls = Append(l.calls, ClientCall(provider, res, res.text)),
                               !.elapsed = l.elapsed + dur]
       IN IF res.ok
            THEN [called EXCEPT !.transcript_result = Some(res.text),
                                !.provider_used = Some(provider),
                                !.idx = Len(l.providers) + 1]
            ELSE [called EXCEPT !.last_error = IF l.last_error = None THEN Some(res.err)
                                               ELSE l.last_error,
                                !.idx = l.idx + 1]

\* Variant of TryProvider: Soniox is called without asking is_available.
TryProviderNoAvailabilityCheck(l, key, r, lat) ==
  LET provider == l.providers[l.idx]
      res == IF provider = SONIOX THEN SonioxTranscribe(key) ELSE r
      dur == IF provider = SONIOX THEN 0 ELSE lat + SumSeq(res.sleeps)
      called == [l EXCEPT !.calls = Append(l.calls, ClientCall(provider, res, res.text)),
                          !.elapsed = l.elapsed + dur]
  IN IF res.ok
       THEN [called EXCEPT !.transcript_result = Some(res.text),
                           !.provider_used = Some(provider),
                           !.idx = Len(l.providers) + 1]
       ELSE [called EXCEPT !.last_error = Some(res.err),
                           !.idx = l.idx + 1]

\* One iteration of the provider loop (lines 110-152) given what the client
\* call of this iteration does (r) and how long it takes (lat).
TryProvider(l, key, r, lat) ==
  LET provider == l.providers[l.idx] IN
  IF provider = SONIOX /\ ~SonioxIsAvailable(key)
    THEN [l EXCEPT !.idx = l.idx + 1]
  ELSE LET res == IF provider = SONIOX THEN SonioxTranscribe(key) ELSE r
           dur == IF provider = SONIOX THEN 0 ELSE lat + SumSeq(res.sleeps)
           called == [l EXCEPT !.calls = Append(l.calls, ClientCall(provider, res, res.text)),
                               !.elapsed = l.elapsed + dur]
       IN IF res.ok
            THEN [called EXCEPT !.transcript_result = Some(res.text),
                                !.provider_used = Some(provider),
                                !.idx = Len(l.providers) + 1]
            ELSE [called EXCEPT !.last_error = Some(res.err),
                                !.idx = l.idx + 1]

TranscribeTry(p, results, lats) ==
  /\ pc[p] = "t_try"
  /\ \E r \in results, lat \in lats :
       LET l == TryProvider(loc[p], apiKey, r, lat) IN
       /\ loc' = [loc EXCEPT ![p] = l]
       /\ pc' = [pc EXCEPT ![p] = IF l.idx > Len(l.providers) THEN "t_end" ELSE "t_try"]
  /\ UNCHANGED <<apiKey, db, conv, syn, synCount, last, participants>>

\* One iteration of the provider loop (lines 110-152) with the stream
\* audio_file: the k-th upstream call of the Whisper client does outs[k] after
\* reading up to reads[k] bytes; the Soniox stub reads nothing; the except
\* branch rewinds the stream (line 151).
TranscribeTryStream(p, ups, lens, lats) ==
  /\ pc[p] = "t_try"
  /\ \E outs \in [1..MaxRetries -> ups], reads \in [1..MaxRetries -> lens], lat \in lats :
       LET provider == loc[p].providers[loc[p].idx]
           l == TryProvider(loc[p], apiKey, WhisperTranscribe(outs), lat)
           a == loc[p].audio
           called == IF provider = WHISPER THEN WhisperStream(outs, reads, 1, a) ELSE a
           after == IF provider = SONIOX /\ ~SonioxIsAvailable(apiKey) THEN a
                    ELSE IF l.transcript_result # None THEN called
                    ELSE Seek0(called)
       IN
       /\ loc' = [loc EXCEPT ![p] = [l EXCEPT !.audio = after]]
       /\ pc' = [pc EXCEPT ![p] = IF l.idx > Len(l.providers) THEN "t_end" ELSE "t_try"]
  /\ UNCHANGED <<apiKey, db, conv, syn, synCount, last, participants>>

\* Variant of TranscribeFailed: an empty transcript is stored with the
\* failure.
TranscribeFailedStoresEmpty(p) ==
  /\ pc[p] = "t_end"
  /\ loc[p].transcript_result = None \/ loc[p].provider_used = None
  /\ conv' = RepoUpdate(conv,
       [status |-> FAILED,
        transcript |-> Some(<<>>),
        error_message |-> Some(AllFailedMessage(loc[p].last_error)),
        processing_time_seconds |-> Some(IntSeconds(loc[p].elapsed))])
  /\ last' = Outcome("transcribe", "raise", "all_providers_failed",
                     Some(AllFailedMessage(loc[p].last_error)), loc[p])
  /\ pc' = [pc EXCEPT ![p] = "idle"]
  /\ loc' = [loc EXCEPT ![p] = Blank]
  /\ UNCHANGED <<apiKey, db, syn, synCount, participants>>

\* Variant of TranscribeFailed: the failure is not recorded when the row has
\* a transcript by now.
TranscribeFailedUnlessStored(p) ==
  /\ pc[p] = "t_end"
  /\ loc[p].transcript_result = None \/ loc[p].provider_used = None
  /\ conv' = IF conv.transcript # None THEN conv
             ELSE RepoUpdate(conv,
                    [status |-> FAILED,
                     error_message |-> Some(AllFailedMessage(loc[p].last_error)),
                     processing_time_seconds |-> Some(IntSeconds(loc[p].elapsed))])
  /\ last' = Outcome("transcribe", "raise", "all_providers_failed",
                     Some(AllFailedMessage(loc[p].last_error)), loc[p])
  /\ pc' = [pc EXCEPT ![p] = "idle"]
  /\ loc' = [loc EXCEPT ![p] = Blank]
  /\ UNCHANGED <<apiKey, db, syn, synCount, participants>>

\* transcribe_audio, lines 155-174: no provider succeeded.
TranscribeFailed(p) ==
  /\ pc[p] = "t_end"
  /\ loc[p].transcript_result = None \/ loc[p].provider_used = None
  /\ conv' = RepoUpdate(conv,
       [status |-> FAILED,
        error_message |-> Some(AllFailedMessage(loc[p].last_error)),
        processing_time_seconds |-> Some(IntSeconds(loc[p].elapsed))])
  /\ last' = Outcome("transcribe", "raise", "all_providers_failed",
                     Some(AllFailedMessage(loc[p].last_error)), loc[p])
  /\ pc' = [pc EXCEPT ![p] = "idle"]
  /\ loc' = [loc EXCEPT ![p] = Blank]
  /\ UNCHANGED <<apiKey, db, syn, synCount, participants>>

\* Variant of TranscriptFields: the status written is not a member of the
\* enumeration.
TranscriptFieldsUnknownStatus(text, provider, elapsed) ==
  [status |-> "transcribed",
   transcript |-> Some(text),
   transcript_word_count |-> Some(WordCount(text)),
   transcription_provider |-> Some(provider),
   processing_time_seconds |-> Some(IntSeconds(elapsed))]

\* The keyword arguments of the update at lines 190-197.
TranscriptFields(text, provider, elapsed) ==
  [status |-> COMPLETED,
   transcript |-> Some(text),
   transcript_word_count |-> Some(WordCount(text)),
   transcription_provider |-> Some(provider),
   processing_time_seconds |-> Some(IntSeconds(elapsed))]

\* transcribe_audio, lines 176-205: store the transcript and return.
TranscribeCompleted(p) ==
  /\ pc[p] = "t_end"
  /\ loc[p].transcript_result # None /\ loc[p].provider_used # None
  /\ LET text == loc[p].transcript_result[1]
         provider == loc[p].provider_used[1]
     IN /\ conv' = RepoUpdate(conv, TranscriptFields(text, provider, loc[p].elapsed))
        /\ last' = Outcome("transcribe", "return", "",
                           Some([text |-> text, word_count |-> WordCount(text),
                                 provider |-> provider,
                                 processing_time_seconds |-> loc[p].elapsed]),
                           loc[p])
  /\ pc' = [pc EXCEPT ![p] = "idle"]
  /\ loc' = [loc EXCEPT ![p] = Blank]
  /\ UNCHANGED <<apiKey, db, syn, synCount, participants>>


(************************* synthesis provider client ***********************)
\* The structured result the LLM answers with, one per v in 1..NumResults:
\* every field differs between two results.
SummaryText(v) == [i \in 1..(2 * v + 1) |-> IF i % 2 = 0 THEN " " ELSE "s"]

LLMData(v) ==
  [summary |-> SummaryText(v),
   key_decisions |-> << <<"decision", v>> >>,
   action_items |-> << [task |-> <<"task", v>>, owner |-> Some(<<"owner", v>>),
                        due_date |-> None] >>,
   open_questions |-> << <<"question", v>> >>,
   key_topics |-> << <<"topic", v>> >>,
   total_tokens |-> 100 * v]

LLMOk(v) == [kind |-> "ok", data |-> Some(LLMData(v))]
LLMErr(k) == [kind |-> k, data |-> None]
LLMUpstream ==
  {LLMOk(v) : v \in 1..NumResults}
    \cup {LLMErr(k) : k \in OpenAIErrors \cup {"json_decode_error"} \cup OtherErrors}

\* settings.openai_model_synthesis
SynthesisModel == "gpt-4-synthesis"

\* Variant of SynthesizeLoop: a malformed answer has its own budget of
\* attempts, counted from the first malformed answer.
RECURSIVE SynthesizeLoopParseCounter(_, _, _, _)
SynthesizeLoopParseCounter(outs, attempt, parses, sleeps) ==
  LET o == outs[attempt]
      raised(e) == [ok |-> FALSE, data |-> None, err |-> e, calls |-> attempt,
                    sleeps |-> sleeps]
  IN
  IF o.kind = "ok"
    THEN [ok |-> TRUE, data |-> o.data, err |-> "", calls |-> attempt, sleeps |-> sleeps]
  ELSE IF o.kind \in OpenAIErrors
    THEN IF attempt < MaxRetries
           THEN SynthesizeLoopParseCounter(outs, attempt + 1, parses,
                                           Append(sleeps, BackoffSleep(attempt)))
           ELSE raised(o.kind)
  ELSE IF o.kind = "json_decode_error"
    THEN IF attempt < MaxRetries
           THEN SynthesizeLoopParseCounter(outs, attempt + 1, parses + 1,
                                           Append(sleeps, BackoffSleep(attempt)))
           ELSE IF parses + 1 < MaxRetries
             THEN [ok |-> FALSE, data |-> None, err |-> "openai_api_error",
                   calls |-> attempt + 1, sleeps |-> Append(sleeps, BackoffSleep(attempt))]
           ELSE raised("openai_error_failed_to_parse_json")
  ELSE raised(o.kind)

SynthesizeLoopOwnCounter(outs, attempt, sleeps) ==
  SynthesizeLoopParseCounter(outs, attempt, 0, sleeps)

\* OpenAISynthesisClient.synthesize_transcript, the retry loop from attempt on.
RECURSIVE SynthesizeLoop(_, _, _)
SynthesizeLoop(outs, attempt, sleeps) ==
  LET o == outs[attempt]
      raised(e) == [ok |-> FALSE, data |-> None, err |-> e, calls |-> attempt,
                    sleeps |-> sleeps]
  IN
  IF o.kind = "ok"
    THEN [ok |-> TRUE, data |-> o.data, err |-> "", calls |-> attempt, sleeps |-> sleeps]
  ELSE IF o.kind \in OpenAIErrors
    THEN IF attempt < MaxRetries
           THEN SynthesizeLoop(outs, attempt + 1, Append(sleeps, BackoffSleep(attempt)))
           ELSE raised(o.kind)
  ELSE IF o.kind = "json_decode_error"
    THEN IF attempt < MaxRetries
           THEN SynthesizeLoop(outs, attempt + 1, Append(sleeps, BackoffSleep(attempt)))
           ELSE raised("openai_error_failed_to_parse_json")
  ELSE raised(o.kind)

\* Variant of TranscriptTooShort: the length is taken without trimming.
TranscriptTooShortUntrimmed(transcript) ==
  \/ transcript = None
  \/ transcript[1] = <<>>
  \/ Len(transcript[1]) < MinTranscriptLen

\* not transcript or len(transcript.strip()) < 50
TranscriptTooShort(transcript) ==
  \/ transcript = None
  \/ transcript[1] = <<>>
  \/ Len(Strip(transcript[1])) < MinTranscriptLen

\* OpenAISynthesisClient.synthesize_transcript
SynthesizeTranscript(transcript, outs) ==
  IF TranscriptTooShort(transcript)
    THEN [ok |-> FALSE, data |-> None, err |-> "value_error_transcript_too_short",
          calls |-> 0, sleeps |-> <<>>]
    ELSE SynthesizeLoop(outs, 1, <<>>)

LLMRuns(ups) == [1..MaxRetries -> ups]
AnyLLMRun == LLMRuns(LLMUpstream)
\* The upstream answers at once or fails at once with a non-API exception.
PromptLLMRun == LLMRuns({LLMOk(v) : v \in 1..NumResults} \cup {LLMErr("other_error")})
\* As PromptLLMRun, with the first and the last of the results only.
\* Each upstream call answers with the first result or fails with a non-API
\* exception.
PlainLLMRun == LLMRuns({LLMOk(1), LLMErr("other_error")})

ExtremeLLMRun == LLMRuns({LLMOk(1), LLMOk(NumResults), LLMErr("other_error")})

\* The result dictionary built at lines 103-112 of the client; elapsed is the
\* client's own processing time in half seconds.
SynthesisResult(data, elapsed) ==
  [summary |-> data.summary,
   key_decisions |-> data.key_decisions,
   action_items |-> data.action_items,
   open_questions |-> data.open_questions,
   key_topics |-> data.key_topics,
   llm_model |-> SynthesisModel,
   llm_tokens_used |-> data.total_tokens,
   processing_time_seconds |-> elapsed]

(************************** synthesis orchestrator *************************)
\* No Synthesis row.
NoSynthesis ==
  [exists |-> FALSE, id |-> "", summary |-> <<>>, summary_word_count |-> None,
   key_decisions |-> None, action_items |-> None, open_questions |-> None,
   key_topics |-> None, llm_model |-> None, llm_tokens_used |-> None,
   processing_time_seconds |-> None, confidence_score |-> None,
   email_sent_at |-> None, email_recipients |-> None, email_delivery_status |-> None]

\* Variant of SynthesisFields: the open questions and the key topics are
\* stored in each other's column.
SynthesisFieldsSwapped(res) ==
  [summary |-> res.summary,
   summary_word_count |-> Some(WordCount(res.summary)),
   key_decisions |-> Some(res.key_decisions),
   action_items |-> Some(res.action_items),
   open_questions |-> Some(res.key_topics),
   key_topics |-> Some(res.open_questions),
   llm_model |-> Some(res.llm_model),
   llm_tokens_used |-> Some(res.llm_tokens_used),
   processing_time_seconds |-> Some(res.processing_time_seconds)]

\* Variant of SynthesisFields: a regeneration also resets the delivery status.
SynthesisFieldsResetDelivery(res) ==
  [summary |-> res.summary,
   summary_word_count |-> Some(WordCount(res.summary)),
   key_decisions |-> Some(res.key_decisions),
   action_items |-> Some(res.action_items),
   open_questions |-> Some(res.open_questions),
   key_topics |-> Some(res.key_topics),
   llm_model |-> Some(res.llm_model),
   llm_tokens_used |-> Some(res.llm_tokens_used),
   processing_time_seconds |-> Some(res.processing_time_seconds),
   email_delivery_status |-> None]

\* The keyword arguments given to synthesis_repo.update and .create
\* (lines 143-151 and 162-170).
SynthesisFields(res) ==
  [summary |-> res.summary,
   summary_word_count |-> Some(WordCount(res.summary)),
   key_decisions |-> Some(res.key_decisions),
   action_items |-> Some(res.action_items),
   open_questions |-> Some(res.open_questions),
   key_topics |-> Some(res.key_topics),
   llm_model |-> Some(res.llm_model),
   llm_tokens_used |-> Some(res.llm_tokens_used),
   processing_time_seconds |-> Some(res.processing_time_seconds)]

\* BaseRepository.create for the syntheses table: a new row with a fresh id.
RepoCreateSynthesis(kwargs) ==
  RepoUpdate([NoSynthesis EXCEPT !.exists = TRUE, !.id = "synthesis-1"], kwargs)

\* The dictionary returned for an existing row (lines 107-117).
ExistingReturn(row) ==
  [synthesis_id |-> row.id,
   summary |-> row.summary,
   key_decisions |-> row.key_decisions,
   action_items |-> row.action_items,
   open_questions |-> row.open_questions,
   key_topics |-> row.key_topics,
   llm_model |-> row.llm_model,
   llm_tokens_used |-> row.llm_tokens_used,
   processing_time_seconds |-> row.processing_time_seconds]

\* The dictionary returned after a generation (lines 195-205).
GeneratedReturn(id, res) ==
  [synthesis_id |-> id,
   summary |-> res.summary,
   key_decisions |-> Some(res.key_decisions),
   action_items |-> Some(res.action_items),
   open_questions |-> Some(res.open_questions),
   key_topics |-> Some(res.key_topics),
   llm_model |-> Some(res.llm_model),
   llm_tokens_used |-> Some(res.llm_tokens_used),
   processing_time_seconds |-> Some(res.processing_time_seconds)]

\* f"Synthesis failed: {str(e)}"
SynthesisFailedMessage(e) == <<"Synthesis failed: ", e>>

\* What the previous invocation returned, when it was a generate_synthesis
\* that returned.
PreviousSynthesis ==
  IF AllIdle /\ last.op = "synthesize" /\ last.how = "return"
    THEN Some([force_regenerate |-> last.force_regenerate, val |-> last.val[1],
               generated |-> last.calls # <<>>])
    ELSE None

\* Variant of SynthesisGet: the precondition is "transcript is None", so an
\* empty transcript passes.
SynthesisGetNullOnly(p, force) ==
  /\ pc[p] = "idle"
  /\ IF ~conv.exists
       THEN /\ last' = Outcome("synthesize", "raise", "conversation_not_found", None,
                               [Blank EXCEPT !.pre = RowsBefore,
                                             !.force_regenerate = force,
                                             !.prev = PreviousSynthesis])
            /\ UNCHANGED <<pc, loc>>
     ELSE IF conv.transcript = None
       THEN /\ last' = Outcome("synthesize", "raise", "no_transcript_available",
                               Some(conv.status),
                               [Blank EXCEPT !.pre = RowsBefore,
                                             !.force_regenerate = force,
                                             !.prev = PreviousSynthesis])
            /\ UNCHANGED <<pc, loc>>
     ELSE /\ loc' = [loc EXCEPT ![p] = [Blank EXCEPT !.op = "synthesize",
                                                    !.pre = RowsBefore,
                                                    !.force_regenerate = force,
                                                    !.transcript = conv.transcript,
                                                    !.prev = PreviousSynthesis]]
          /\ pc' = [pc EXCEPT ![p] = "s_check"]
          /\ last' = NoOutcome
  /\ UNCHANGED <<apiKey, db, conv, syn, synCount, participants>>

\* generate_synthesis, lines 75-97: load the conversation or raise not found;
\* raise when it has no transcript.
SynthesisGet(p, force) ==
  /\ pc[p] = "idle"
  /\ IF ~conv.exists
       THEN /\ last' = Outcome("synthesize", "raise", "conversation_not_found", None,
                               [Blank EXCEPT !.pre = RowsBefore,
                                             !.force_regenerate = force,
                                             !.prev = PreviousSynthesis])
            /\ UNCHANGED <<pc, loc>>
     ELSE IF conv.transcript = None \/ conv.transcript = Some(<<>>)
       THEN /\ last' = Outcome("synthesize", "raise", "no_transcript_available",
                               Some(conv.status),
                               [Blank EXCEPT !.pre = RowsBefore,
                                             !.force_regenerate = force,
                                             !.prev = PreviousSynthesis])
            /\ UNCHANGED <<pc, loc>>
     ELSE /\ loc' = [loc EXCEPT ![p] = [Blank EXCEPT !.op = "synthesize",
                                                    !.pre = RowsBefore,
                                                    !.force_regenerate = force,
                                                    !.transcript = conv.transcript,
                                                    !.prev = PreviousSynthesis]]
          /\ pc' = [pc EXCEPT ![p] = "s_check"]
          /\ last' = NoOutcome
  /\ UNCHANGED <<apiKey, db, conv, syn, synCount, participants>>

\* Variant of SynthesisCheck: force_regenerate is not looked at, an existing
\* row is always regenerated.
SynthesisCheckAlwaysRegenerate(p) ==
  /\ pc[p] = "s_check"
  /\ loc' = [loc EXCEPT ![p].existing_synthesis =
                          IF syn.exists THEN Some(syn.id) ELSE None]
  /\ pc' = [pc EXCEPT ![p] = "s_mark"]
  /\ UNCHANGED <<apiKey, db, conv, syn, synCount, last, participants>>

\* generate_synthesis, lines 99-117: return the existing row unless forced.
SynthesisCheck(p) ==
  /\ pc[p] = "s_check"
  /\ IF syn.exists /\ ~loc[p].force_regenerate
       THEN /\ last' = Outcome("synthesize", "return", "", Some(ExistingReturn(syn)), loc[p])
            /\ pc' = [pc EXCEPT ![p] = "idle"]
            /\ loc' = [loc EXCEPT ![p] = Blank]
       ELSE /\ loc' = [loc EXCEPT ![p].existing_synthesis =
                                    IF syn.exists THEN Some(syn.id) ELSE None]
            /\ pc' = [pc EXCEPT ![p] = "s_mark"]
            /\ UNCHANGED last
  /\ UNCHANGED <<apiKey, db, conv, syn, synCount, participants>>

\* Variant of SynthesisMark: a FAILED conversation keeps its status.
SynthesisMarkKeepsFailed(p) ==
  /\ pc[p] = "s_mark"
  /\ conv' = IF conv.status = FAILED
               THEN RepoUpdate(conv, [synthesis_provider |-> Some("openai_gpt4")])
               ELSE RepoUpdate(conv, [status |-> SYNTHESIZING,
                                      synthesis_provider |-> Some("openai_gpt4")])
  /\ loc' = [loc EXCEPT ![p].transcript =
                          IF conv.exists THEN conv.transcript ELSE loc[p].transcript]
  /\ pc' = [pc EXCEPT ![p] = "s_call"]
  /\ UNCHANGED <<apiKey, db, syn, synCount, last, participants>>

\* generate_synthesis, lines 119-126: status = SYNTHESIZING.  The update
\* refreshes the loaded conversation object.
SynthesisMark(p) ==
  /\ pc[p] = "s_mark"
  /\ conv' = RepoUpdate(conv, [status |-> SYNTHESIZING,
                               synthesis_provider |-> Some("openai_gpt4")])
  /\ loc' = [loc EXCEPT ![p].transcript =
                          IF conv.exists THEN conv.transcript ELSE loc[p].transcript]
  /\ pc' = [pc EXCEPT ![p] = "s_call"]
  /\ UNCHANGED <<apiKey, db, syn, synCount, last, participants>>

\* generate_synthesis, lines 128-136: the LLM client call.
SynthesisCall(p, runs, lats) ==
  /\ pc[p] = "s_call"
  /\ \E outs \in runs, lat \in lats :
       LET r == SynthesizeTranscript(loc[p].transcript, outs)
           dur == IF r.calls = 0 THEN 0 ELSE lat + SumSeq(r.sleeps)
           called == [loc[p] EXCEPT !.elapsed = loc[p].elapsed + dur,
                                    !.calls = Append(loc[p].calls,
                                                     ClientCall("openai", r, <<>>))]
       IN IF r.ok
            THEN /\ loc' = [loc EXCEPT ![p] =
                              [called EXCEPT !.synthesis_result =
                                               Some(SynthesisResult(r.data[1], dur))]]
                 /\ pc' = [pc EXCEPT ![p] = "s_store"]
            ELSE /\ loc' = [loc EXCEPT ![p] = [called EXCEPT !.last_error = Some(r.err)]]
                 /\ pc' = [pc EXCEPT ![p] = "s_fail"]
  /\ UNCHANGED <<apiKey, db, conv, syn, synCount, last, participants>>

\* Variant of SynthesisStore: an existing row is left as it is.
SynthesisStoreInsertOnly(p) ==
  /\ pc[p] = "s_store"
  /\ LET fields == SynthesisFields(loc[p].synthesis_result[1]) IN
     IF loc[p].existing_synthesis # None
       THEN /\ pc' = [pc EXCEPT ![p] = "s_done"]
            /\ UNCHANGED <<loc, syn, synCount>>
     ELSE IF synCount > 0
       THEN /\ loc' = [loc EXCEPT ![p].last_error = Some("integrity_error")]
            /\ pc' = [pc EXCEPT ![p] = "s_fail"]
            /\ UNCHANGED <<syn, synCount>>
     ELSE /\ syn' = RepoCreateSynthesis(fields)
          /\ synCount' = synCount + 1
          /\ loc' = [loc EXCEPT ![p].existing_synthesis = Some("synthesis-1")]
          /\ pc' = [pc EXCEPT ![p] = "s_done"]
  /\ UNCHANGED <<apiKey, db, conv, last, participants>>

\* Variant of SynthesisStore: conversation_id has no unique index, the insert
\* always succeeds.
SynthesisStoreNoUniqueIndex(p) ==
  /\ pc[p] = "s_store"
  /\ LET fields == SynthesisFields(loc[p].synthesis_result[1]) IN
     IF loc[p].existing_synthesis # None
       THEN /\ syn' = RepoUpdate(syn, fields)
            /\ pc' = [pc EXCEPT ![p] = "s_done"]
            /\ UNCHANGED <<loc, synCount>>
     ELSE /\ syn' = IF synCount > 0 THEN syn ELSE RepoCreateSynthesis(fields)
          /\ synCount' = synCount + 1
          /\ loc' = [loc EXCEPT ![p].existing_synthesis = Some("synthesis-1")]
          /\ pc' = [pc EXCEPT ![p] = "s_done"]
  /\ UNCHANGED <<apiKey, db, conv, last, participants>>

\* Variant of SynthesisStore: the result is not stored.
SynthesisStoreSkipped(p) ==
  /\ pc[p] = "s_store"
  /\ loc' = [loc EXCEPT ![p].existing_synthesis = Some("synthesis-1")]
  /\ pc' = [pc EXCEPT ![p] = "s_done"]
  /\ UNCHANGED <<apiKey, db, conv, syn, synCount, last, participants>>

\* generate_synthesis, lines 138-176: overwrite the existing row or create one.
\* The unique index on conversation_id makes a second insert fail with an
\* IntegrityError at commit, which rolls the transaction back.
SynthesisStore(p) ==
  /\ pc[p] = "s_store"
  /\ LET fields == SynthesisFields(loc[p].synthesis_result[1]) IN
     IF loc[p].existing_synthesis # None
       THEN /\ syn' = RepoUpdate(syn, fields)
            /\ pc' = [pc EXCEPT ![p] = "s_done"]
            /\ UNCHANGED <<loc, synCount>>
     ELSE IF synCount > 0
       THEN /\ loc' = [loc EXCEPT ![p].last_error = Some("integrity_error")]
            /\ pc' = [pc EXCEPT ![p] = "s_fail"]
            /\ UNCHANGED <<syn, synCount>>
     ELSE /\ syn' = RepoCreateSynthesis(fields)
          /\ synCount' = synCount + 1
          /\ loc' = [loc EXCEPT ![p].existing_synthesis = Some("synthesis-1")]
          /\ pc' = [pc EXCEPT ![p] = "s_done"]
  /\ UNCHANGED <<apiKey, db, conv, last, participants>>

\* generate_synthesis, lines 178-205: status = COMPLETED and return.
SynthesisDone(p) ==
  /\ pc[p] = "s_done"
  /\ conv' = RepoUpdate(conv, [status |-> COMPLETED,
                               processing_time_seconds |-> Some(IntSeconds(loc[p].elapsed))])
  /\ last' = Outcome("synthesize", "return", "",
                     Some(GeneratedReturn(loc[p].existing_synthesis[1],
                                          loc[p].synthesis_result[1])), loc[p])
  /\ pc' = [pc EXCEPT ![p] = "idle"]
  /\ loc' = [loc EXCEPT ![p] = Blank]
  /\ UNCHANGED <<apiKey, db, syn, synCount, participants>>

\* Variant of SynthesisFailed: the handler clears what the conversation held
\* of the earlier phase together with the status.
SynthesisFailedResetsTranscript(p) ==
  /\ pc[p] = "s_fail"
  /\ conv' = RepoUpdate(conv,
       [status |-> FAILED,
        transcript_word_count |-> None,
        error_message |-> Some(<<"Synthesis failed: ", loc[p].last_error[1]>>),
        processing_time_seconds |-> Some(IntSeconds(loc[p].elapsed))])
  /\ last' = Outcome("synthesize", "raise", loc[p].last_error[1], None, loc[p])
  /\ pc' = [pc EXCEPT ![p] = "idle"]
  /\ loc' = [loc EXCEPT ![p] = Blank]
  /\ UNCHANGED <<apiKey, db, syn, synCount, participants>>

\* Variant of SynthesisFailed: the error is raised without a status write.
SynthesisFailedNoStatus(p) ==
  /\ pc[p] = "s_fail"
  /\ last' = Outcome("synthesize", "raise", loc[p].last_error[1], None, loc[p])
  /\ pc' = [pc EXCEPT ![p] = "idle"]
  /\ loc' = [loc EXCEPT ![p] = Blank]
  /\ UNCHANGED <<apiKey, db, conv, syn, synCount, participants>>

\* generate_synthesis, lines 207-227: status = FAILED and re-raise.
SynthesisFailed(p) ==
  /\ pc[p] = "s_fail"
  /\ conv' = RepoUpdate(conv,
       [status |-> FAILED,
        error_message |-> Some(SynthesisFailedMessage(loc[p].last_error[1])),
        processing_time_seconds |-> Some(IntSeconds(loc[p].elapsed))])
  /\ last' = Outcome("synthesize", "raise", loc[p].last_error[1], None, loc[p])
  /\ pc' = [pc EXCEPT ![p] = "idle"]
  /\ loc' = [loc EXCEPT ![p] = Blank]
  /\ UNCHANGED <<apiKey, db, syn, synCount, participants>>


(***************************** SMTP client *********************************)
SmtpUpstream == {"ok", "smtp_authentication_error", "smtp_error"}

\* SMTPClient.send_email, the retry loop from attempt on; outs[k] is what the
\* k-th connection does.
RECURSIVE SmtpLoop(_, _, _)
SmtpLoop(outs, attempt, sleeps) ==
  LET o == outs[attempt] IN
  IF o = "ok"
    THEN [ok |-> TRUE, err |-> "", calls |-> attempt, sleeps |-> sleeps]
  ELSE IF o = "smtp_authentication_error"
    THEN [ok |-> FALSE, err |-> "smtp_authentication_failed", calls |-> attempt,
          sleeps |-> sleeps]
  ELSE IF attempt < MaxRetries
    THEN SmtpLoop(outs, attempt + 1, Append(sleeps, BackoffSleep(attempt)))
  ELSE [ok |-> FALSE, err |-> o, calls |-> attempt, sleeps |-> sleeps]

\* Variant of SmtpLoop: an authentication failure is retried like any other.
RECURSIVE SmtpLoopAuthRetried(_, _, _)
SmtpLoopAuthRetried(outs, attempt, sleeps) ==
  LET o == outs[attempt] IN
  IF o = "ok"
    THEN [ok |-> TRUE, err |-> "", calls |-> attempt, sleeps |-> sleeps]
  ELSE IF attempt < MaxRetries
    THEN SmtpLoopAuthRetried(outs, attempt + 1, Append(sleeps, BackoffSleep(attempt)))
  ELSE [ok |-> FALSE,
        err |-> IF o = "smtp_authentication_error" THEN "smtp_authentication_failed"
                ELSE o,
        calls |-> attempt, sleeps |-> sleeps]

SmtpSendEmailAuthRetried(outs) == SmtpLoopAuthRetried(outs, 1, <<>>)

SmtpSendEmail(outs) == SmtpLoop(outs, 1, <<>>)

SmtpRuns(ups) == [1..MaxRetries -> ups]
AnySmtpRun == SmtpRuns(SmtpUpstream)
\* The server accepts the message at once or refuses the login.
PromptSmtpRun == SmtpRuns({"ok", "smtp_authentication_error"})

(************************** delivery orchestrator **************************)
\* The addresses a participant row may hold; email is NOT NULL but may be "".
Emails == {"alice@example.com", "bob@example.com", ""}
\* The explicit recipient lists a caller may give (None, or a list).
CustomRecipients == {None, Some(<<>>), Some(<<"carol@example.com">>)}
\* The caller names no recipients or names one.
DefaultOrCarol == {None, Some(<<"carol@example.com">>)}

\* A participant row is added to the conversation (through the repository;
\* no orchestrator does it).
AddParticipant(emails) ==
  /\ conv.exists
  /\ Len(participants) < MaxParticipants
  /\ \E e \in emails : participants' = Append(participants, e)
  /\ UNCHANGED <<apiKey, db, conv, syn, synCount, pc, loc, last>>

\* Variant of ParticipantEmails: every participant's address is taken, empty
\* or not.
ParticipantEmailsUnfiltered(ps) == ps

\* [p.email for p in participants if p.email]
RECURSIVE ParticipantEmails(_)
ParticipantEmails(ps) ==
  IF ps = <<>> THEN <<>>
  ELSE IF Head(ps) # "" THEN <<Head(ps)>> \o ParticipantEmails(Tail(ps))
  ELSE ParticipantEmails(Tail(ps))

\* send_synthesis_email, lines 79-89: load the conversation or raise.
EmailGet(p, custom) ==
  /\ pc[p] = "idle"
  /\ IF ~conv.exists
       THEN /\ last' = Outcome("send_email", "raise", "conversation_not_found", None,
                               [Blank EXCEPT !.pre = RowsBefore,
                                             !.custom_recipients = custom])
            /\ UNCHANGED <<pc, loc>>
       ELSE /\ loc' = [loc EXCEPT ![p] = [Blank EXCEPT !.op = "send_email",
                                                      !.pre = RowsBefore,
                                                      !.custom_recipients = custom]]
            /\ pc' = [pc EXCEPT ![p] = "e_synthesis"]
            /\ last' = NoOutcome
  /\ UNCHANGED <<apiKey, db, conv, syn, synCount, participants>>

\* send_synthesis_email, lines 91-101: load the synthesis or raise.
EmailSynthesis(p) ==
  /\ pc[p] = "e_synthesis"
  /\ IF ~syn.exists
       THEN /\ last' = Outcome("send_email", "raise", "synthesis_not_found", None, loc[p])
            /\ pc' = [pc EXCEPT ![p] = "idle"]
            /\ loc' = [loc EXCEPT ![p] = Blank]
       ELSE /\ loc' = [loc EXCEPT ![p].existing_synthesis = Some(syn.id)]
            /\ pc' = [pc EXCEPT ![p] = "e_recipients"]
            /\ UNCHANGED last
  /\ UNCHANGED <<apiKey, db, conv, syn, synCount, participants>>

\* Variant of EmailRecipients: the resolved list is sent to even when it is
\* empty.
EmailRecipientsNoCheck(p) ==
  /\ pc[p] = "e_recipients"
  /\ LET custom == loc[p].custom_recipients
         useCustom == custom # None /\ custom[1] # <<>>
         found == IF useCustom THEN custom[1] ELSE ParticipantEmails(participants)
     IN loc' = [loc EXCEPT ![p].recipients = found]
  /\ pc' = [pc EXCEPT ![p] = "e_send"]
  /\ UNCHANGED <<apiKey, db, conv, syn, synCount, last, participants>>

\* send_synthesis_email, lines 103-136: the explicit list, else the
\* participants' addresses, else raise.
EmailRecipients(p) ==
  /\ pc[p] = "e_recipients"
  /\ LET custom == loc[p].custom_recipients
         useCustom == custom # None /\ custom[1] # <<>>
         found == IF useCustom THEN custom[1] ELSE ParticipantEmails(participants)
         err == IF useCustom THEN ""
                ELSE IF ~conv.exists \/ participants = <<>> THEN "no_participants_found"
                ELSE IF found = <<>> THEN "no_valid_email_addresses"
                ELSE ""
     IN IF err # ""
          THEN /\ last' = Outcome("send_email", "raise", err, None, loc[p])
               /\ pc' = [pc EXCEPT ![p] = "idle"]
               /\ loc' = [loc EXCEPT ![p] = Blank]
          ELSE /\ loc' = [loc EXCEPT ![p].recipients = found]
               /\ pc' = [pc EXCEPT ![p] = "e_send"]
               /\ UNCHANGED last
  /\ UNCHANGED <<apiKey, db, conv, syn, synCount, participants>>

\* send_synthesis_email, lines 159-166: the SMTP client call.  On success the
\* client reports sent_at = time.time().
EmailSend(p, runs, lats) ==
  /\ pc[p] = "e_send"
  /\ \E outs \in runs, lat \in lats :
       LET r == SmtpSendEmail(outs)
           dur == lat + SumSeq(r.sleeps)
           called == [loc[p] EXCEPT !.calls = Append(loc[p].calls, ClientCall("smtp", r, <<>>)),
                                    !.elapsed = dur]
       IN IF r.ok
            THEN /\ loc' = [loc EXCEPT ![p] =
                              [called EXCEPT !.sent_at = Some(<<"time.time", dur>>)]]
                 /\ pc' = [pc EXCEPT ![p] = "e_sent"]
            ELSE /\ loc' = [loc EXCEPT ![p] = [called EXCEPT !.last_error = Some(r.err)]]
                 /\ pc' = [pc EXCEPT ![p] = "e_failed"]
  /\ UNCHANGED <<apiKey, db, conv, syn, synCount, last, participants>>

\* send_synthesis_email, lines 168-188: record the delivery; the row's
\* timestamp is datetime.utcnow().isoformat() taken lat half seconds later.
EmailSent(p, lats) ==
  /\ pc[p] = "e_sent"
  /\ \E lat \in lats :
       syn' = RepoUpdate(syn,
         [email_sent_at |-> Some(<<"utcnow.isoformat", loc[p].elapsed + lat>>),
          email_recipients |-> Some(loc[p].recipients),
          email_delivery_status |-> Some("sent")])
  /\ last' = Outcome("send_email", "return", "",
                     Some([success |-> TRUE, recipients |-> loc[p].recipients,
                           sent_at |-> loc[p].sent_at[1]]), loc[p])
  /\ pc' = [pc EXCEPT ![p] = "idle"]
  /\ loc' = [loc EXCEPT ![p] = Blank]
  /\ UNCHANGED <<apiKey, db, conv, synCount, participants>>

\* Variant of EmailFailed: the failure is re-raised without being recorded.
EmailFailedNotRecorded(p) ==
  /\ pc[p] = "e_failed"
  /\ last' = Outcome("send_email", "raise", loc[p].last_error[1], None, loc[p])
  /\ pc' = [pc EXCEPT ![p] = "idle"]
  /\ loc' = [loc EXCEPT ![p] = Blank]
  /\ UNCHANGED <<apiKey, db, conv, syn, synCount, participants>>

\* Variant of EmailFailed: the conversation is marked FAILED as the other
\* orchestrators do.
EmailFailedMarksConversation(p) ==
  /\ pc[p] = "e_failed"
  /\ syn' = RepoUpdate(syn, [email_delivery_status |-> Some("failed")])
  /\ conv' = RepoUpdate(conv, [status |-> FAILED,
                               error_message |-> Some(loc[p].last_error[1])])
  /\ last' = Outcome("send_email", "raise", loc[p].last_error[1], None, loc[p])
  /\ pc' = [pc EXCEPT ![p] = "idle"]
  /\ loc' = [loc EXCEPT ![p] = Blank]
  /\ UNCHANGED <<apiKey, db, synCount, participants>>

\* send_synthesis_email, lines 190-205: record the failure and re-raise.
EmailFailed(p) ==
  /\ pc[p] = "e_failed"
  /\ syn' = RepoUpdate(syn, [email_delivery_status |-> Some("failed")])
  /\ last' = Outcome("send_email", "raise", loc[p].last_error[1], None, loc[p])
  /\ pc' = [pc EXCEPT ![p] = "idle"]
  /\ loc' = [loc EXCEPT ![p] = Blank]
  /\ UNCHANGED <<apiKey, db, conv, synCount, participants>>

(******************************* repositories *****************************)
\* The identifiers uuid4 may produce for conversations and for participants.
ConvIds == 1..MaxConversations
ParticipantIds == 1..MaxParticipants
\* The identifiers a caller may ask for; 0 is one that was never generated.
AskedIds == 0..MaxConversations
\* The keyword arguments create is called with; a status or a platform may be
\* omitted.
CreateKwargs ==
  {[title |-> "Test Meeting", status |-> Some(PENDING), platform |-> Some("zoom")],
   [title |-> "Completed", status |-> Some(COMPLETED), platform |-> None],
   [title |-> "To Be Deleted", status |-> None, platform |-> None]}

\* The tables, and what create and delete have returned so far: created holds
\* the instances create returned for the conversations not deleted since,
\* deleted the identifiers delete returned True for.
EmptyDb ==
  [conversations |-> {}, participants |-> {}, syntheses |-> {},
   created |-> {}, deleted |-> {}]

\* Variant of ConversationRow: the platform keyword is dropped.
ConversationRowNoPlatform(id, title, status, platform) ==
  [id |-> id, title |-> title,
   status |-> IF status = None THEN PENDING ELSE status[1],
   platform |-> None]

\* Conversation(**kwargs) once inserted and refreshed: the primary key comes
\* from uuid4, an omitted status from the column default.
ConversationRow(id, title, status, platform) ==
  [id |-> id, title |-> title,
   status |-> IF status = None THEN PENDING ELSE status[1],
   platform |-> platform]

\* db.query(model).filter(model.id == id).first()
GetById(rows, id) ==
  LET found == {r \in rows : r.id = id}
  IN IF found = {} THEN None ELSE Some(CHOOSE r \in found : TRUE)

\* The rows of a child table that belong to a conversation.
ChildrenOf(rows, id) == {r \in rows : r.conversation_id = id}

\* The result of a repository call: its argument and what it returned.
RepoOutcome(op, how, err, arg, ret) ==
  Outcome(op, how, err, Some([arg |-> arg, ret |-> ret]), Blank)

\* conversation_repo.create(title=..., status=..., platform=...)
ConversationCreate ==
  /\ AllIdle
  /\ \E kwargs \in CreateKwargs, id \in ConvIds :
       /\ id = Cardinality(db.created) + Cardinality(db.deleted) + 1
       /\ LET row == ConversationRow(id, kwargs.title, kwargs.status, kwargs.platform)
          IN /\ db' = [db EXCEPT !.conversations = @ \cup {row},
                                 !.created = @ \cup {row}]
             /\ last' = RepoOutcome("repo_create", "return", "", kwargs, Some(row))
  /\ UNCHANGED <<apiKey, conv, syn, synCount, pc, loc, participants>>

\* conversation_repo.get_by_id(id)
ConversationGetById ==
  /\ AllIdle
  /\ \E id \in AskedIds :
       last' = RepoOutcome("repo_get", "return", "", id, GetById(db.conversations, id))
  /\ UNCHANGED <<apiKey, db, conv, syn, synCount, pc, loc, participants>>

\* Variant of ConversationDeleted: the children are left in their tables.
ConversationDeletedNoCascade(id) ==
  [db EXCEPT !.conversations = {r \in @ : r.id # id},
             !.created = {r \in @ : r.id # id},
             !.deleted = @ \cup {id}]

\* The tables after session.delete(instance) and commit: the relationships
\* cascade "all, delete-orphan", so the participants and the synthesis of the
\* conversation are deleted with it.
ConversationDeleted(id) ==
  [db EXCEPT !.conversations = {r \in @ : r.id # id},
             !.participants = @ \ ChildrenOf(@, id),
             !.syntheses = @ \ ChildrenOf(@, id),
             !.created = {r \in @ : r.id # id},
             !.deleted = @ \cup {id}]

\* conversation_repo.delete(id)
ConversationDelete ==
  /\ AllIdle
  /\ \E id \in AskedIds :
       IF GetById(db.conversations, id) = None
         THEN /\ last' = RepoOutcome("repo_delete", "return", "", id, FALSE)
              /\ UNCHANGED db
         ELSE /\ last' = RepoOutcome("repo_delete", "return", "", id, TRUE)
              /\ db' = ConversationDeleted(id)
  /\ UNCHANGED <<apiKey, conv, syn, synCount, pc, loc, participants>>

\* A Participant row is inserted for a conversation; the foreign key refuses
\* a conversation_id that no conversation has.
ParticipantCreate ==
  /\ AllIdle
  /\ \E cid \in AskedIds, e \in {"alice@example.com"} :
       IF GetById(db.conversations, cid) = None
         THEN /\ last' = RepoOutcome("participant_create", "raise", "integrity_error",
                                     cid, None)
              /\ UNCHANGED db
         ELSE \E id \in ParticipantIds :
                /\ \A r \in db.participants : r.id # id
                /\ \A j \in ParticipantIds : j < id => \E r \in db.participants : r.id = j
                /\ LET row == [id |-> id, conversation_id |-> cid, email |-> e]
                   IN /\ db' = [db EXCEPT !.participants = @ \cup {row}]
                      /\ last' = RepoOutcome("participant_create", "return", "", cid,
                                             Some(id))
  /\ UNCHANGED <<apiKey, conv, syn, synCount, pc, loc, participants>>

\* synthesis_repo.create(conversation_id=...): the foreign key refuses an
\* unknown conversation, the unique index a second row for the same one.
SynthesisCreate ==
  /\ AllIdle
  /\ \E cid \in AskedIds :
       IF GetById(db.conversations, cid) = None \/ ChildrenOf(db.syntheses, cid) # {}
         THEN /\ last' = RepoOutcome("synthesis_create", "raise", "integrity_error",
                                     cid, None)
              /\ UNCHANGED db
         ELSE LET row == [id |-> cid, conversation_id |-> cid]
              IN /\ db' = [db EXCEPT !.syntheses = @ \cup {row}]
                 /\ last' = RepoOutcome("synthesis_create", "return", "", cid, Some(cid))
  /\ UNCHANGED <<apiKey, conv, syn, synCount, pc, loc, participants>>

\* BaseRepository.update on a table: the row with the identifier gets the
\* given attributes, the other rows are left alone.
TableUpdate(rows, id, kwargs) ==
  {IF r.id = id
     THEN [f \in DOMAIN r |-> IF f \in DOMAIN kwargs THEN kwargs[f] ELSE r[f]]
     ELSE r : r \in rows}

\* The statuses update is called with, and those get_by_status asks for.
UpdatedStatuses == <<COMPLETED, FAILED>>
AskedStatuses == <<PENDING, COMPLETED, FAILED>>

\* conversation_repo.update(id, status=...)
ConversationUpdate ==
  /\ AllIdle
  /\ \E id \in AskedIds, k \in 1..Len(UpdatedStatuses) :
       LET status == UpdatedStatuses[k] IN
       IF GetById(db.conversations, id) = None
         THEN /\ last' = RepoOutcome("repo_update", "return", "",
                                     [id |-> id, status |-> status], None)
              /\ UNCHANGED db
         ELSE /\ db' = [db EXCEPT !.conversations = TableUpdate(@, id, [status |-> status])]
              /\ last' = RepoOutcome("repo_update", "return", "",
                                     [id |-> id, status |-> status],
                                     GetById(db'.conversations, id))
  /\ UNCHANGED <<apiKey, conv, syn, synCount, pc, loc, participants>>

\* The limits get_by_status is called with: one row, or the default.
DefaultLimit == 100
Limits == {1, DefaultLimit}

\* The rows with identifiers up to id that pass the filter, newest first:
\* created_at grows with the identifier.
RECURSIVE NewestFirst(_, _, _)
NewestFirst(rows, status, id) ==
  IF id = 0 THEN <<>>
  ELSE LET found == {r \in rows : r.id = id /\ r.status = status}
       IN (IF found = {} THEN <<>> ELSE <<CHOOSE r \in found : TRUE>>)
          \o NewestFirst(rows, status, id - 1)

\* Variant of NewestFirst: the status filter is left out.
RECURSIVE NewestFirstUnfiltered(_, _, _)
NewestFirstUnfiltered(rows, status, id) ==
  IF id = 0 THEN <<>>
  ELSE LET found == {r \in rows : r.id = id}
       IN (IF found = {} THEN <<>> ELSE <<CHOOSE r \in found : TRUE>>)
          \o NewestFirstUnfiltered(rows, status, id - 1)

\* Variant of GetByStatus.
GetByStatusUnfiltered(rows, status, limit) ==
  LET all == NewestFirstUnfiltered(rows, status, MaxConversations)
  IN SubSeq(all, 1, IF Len(all) < limit THEN Len(all) ELSE limit)

\* query.filter(status == s).order_by(created_at.desc()).limit(limit).all()
GetByStatus(rows, status, limit) ==
  LET all == NewestFirst(rows, status, MaxConversations)
  IN SubSeq(all, 1, IF Len(all) < limit THEN Len(all) ELSE limit)

\* conversation_repo.get_by_status(status, limit)
ConversationGetByStatus ==
  /\ AllIdle
  /\ \E k \in 1..Len(AskedStatuses), limit \in Limits :
       LET status == AskedStatuses[k] IN
       last' = RepoOutcome("repo_get_by_status", "return", "",
                           [status |-> status, limit |-> limit],
                           GetByStatus(db.conversations, status, limit))
  /\ UNCHANGED <<apiKey, db, conv, syn, synCount, pc, loc, participants>>

(**************************** client callers ******************************)
\* A caller invokes WhisperClient.transcribe; outs[k] is what the k-th upstream
\* call does.
WhisperClientCall(ups) ==
  /\ AllIdle
  /\ \E outs \in [1..MaxRetries -> ups] :
       LET r == WhisperTranscribe(outs) IN
       last' = Outcome("whisper_transcribe", IF r.ok THEN "return" ELSE "raise", r.err,
                       IF r.ok THEN Some(r.text) ELSE None,
                       [Blank EXCEPT !.outs = outs,
                                     !.calls = <<ClientCall("whisper", r, r.text)>>])
  /\ UNCHANGED <<apiKey, db, conv, syn, synCount, pc, loc, participants>>

\* A caller invokes OpenAISynthesisClient.synthesize_transcript on a text.
OpenAIClientCall(texts, ups) ==
  /\ AllIdle
  /\ \E t \in texts, outs \in [1..MaxRetries -> ups] :
       LET r == SynthesizeTranscript(Some(t), outs) IN
       last' = Outcome("openai_synthesize", IF r.ok THEN "return" ELSE "raise", r.err,
                       r.data,
                       [Blank EXCEPT !.outs = outs, !.transcript = Some(t),
                                     !.calls = <<ClientCall("openai", r, <<>>)>>])
  /\ UNCHANGED <<apiKey, db, conv, syn, synCount, pc, loc, participants>>

\* A caller invokes SMTPClient.send_email; outs[k] is what the k-th connection
\* does.
SmtpClientCall(ups) ==
  /\ AllIdle
  /\ \E outs \in [1..MaxRetries -> ups] :
       LET r == SmtpSendEmail(outs) IN
       last' = Outcome("smtp_send_email", IF r.ok THEN "return" ELSE "raise", r.err, None,
                       [Blank EXCEPT !.outs = outs,
                                     !.calls = <<ClientCall("smtp", r, <<>>)>>])
  /\ UNCHANGED <<apiKey, db, conv, syn, synCount, pc, loc, participants>>

Init ==
  /\ apiKey \in {"", "soniox-key"}
  /\ conv = NoConversation
  /\ syn = NoSynthesis
  /\ synCount = 0
  /\ pc = [p \in Procs |-> "idle"]
  /\ loc = [p \in Procs |-> Blank]
  /\ last = NoOutcome
  /\ participants = <<>>
  /\ db = EmptyDb

\* Spec: the invocations do not overlap; one request runs at a time.
Next ==
  \/ AllIdle /\ CreateConversation
  \/ AllIdle /\ AddParticipant({"alice@example.com"})
  \/ \E p \in {1} :
       \/ AllIdle /\ \E prefer \in PreferProviders : TranscribeGet(p, prefer)
       \/ TranscribeMark(p)
       \/ TranscribeTry(p, PromptWhisperResult, {0})
       \/ TranscribeFailed(p)
       \/ TranscribeCompleted(p)
       \/ AllIdle /\ \E force \in BOOLEAN : SynthesisGet(p, force)
       \/ SynthesisCheck(p)
       \/ SynthesisMark(p)
       \/ SynthesisCall(p, PromptLLMRun, {0})
       \/ SynthesisStore(p)
       \/ SynthesisDone(p)
       \/ SynthesisFailed(p)
       \/ AllIdle /\ \E custom \in DefaultOrCarol : EmailGet(p, custom)
       \/ EmailSynthesis(p)
       \/ EmailRecipients(p)
       \/ EmailSend(p, PromptSmtpRun, {0})
       \/ EmailSent(p, {0})
       \/ EmailFailed(p)

Spec == Init /\ [][Next]_vars

\* SpecT: the transcription orchestrator alone, over every way the Whisper
\* client's retry loop can end and with upstream latencies.
NextT ==
  \/ AllIdle /\ CreateConversation
  \/ \E p \in {1} :
       \/ AllIdle /\ \E prefer \in PreferProviders : TranscribeGet(p, prefer)
       \/ TranscribeMark(p)
       \/ TranscribeTry(p, AnyWhisperResult, 0..MaxLatency)
       \/ TranscribeFailed(p)
       \/ TranscribeCompleted(p)

SpecT == Init /\ [][NextT]_vars

\* SpecS: transcription followed by the synthesis orchestrator, over every way
\* the synthesis client's retry loop can end; the elapsed time is that of the
\* backoff sleeps.
NextS ==
  \/ AllIdle /\ CreateConversation
  \/ \E p \in {1} :
       \/ AllIdle /\ \E prefer \in PreferProviders : TranscribeGet(p, prefer)
       \/ TranscribeMark(p)
       \/ TranscribeTry(p, PromptWhisperResult, {0})
       \/ TranscribeFailed(p)
       \/ TranscribeCompleted(p)
       \/ AllIdle /\ \E force \in BOOLEAN : SynthesisGet(p, force)
       \/ SynthesisCheck(p)
       \/ SynthesisMark(p)
       \/ SynthesisCall(p, AnyLLMRun, {0})
       \/ SynthesisStore(p)
       \/ SynthesisDone(p)
       \/ SynthesisFailed(p)

SpecS == Init /\ [][NextS]_vars

\* No transcribe_audio invocation is in progress.
NotTranscribing ==
  \A q \in Procs : pc[q] # "t_mark" /\ pc[q] # "t_try" /\ pc[q] # "t_end"

\* SpecC: the conversation is transcribed until it has a transcript, then
\* generate_synthesis requests overlap; each runs in its own session against
\* the same rows.  Process 2 serves the requests that arrive while process 1
\* is serving one.
NextC ==
  \/ AllIdle /\ CreateConversation
  \/ \E p \in {1} :
       \/ AllIdle /\ conv.transcript = None /\ TranscribeGet(p, None)
       \/ TranscribeMark(p)
       \/ TranscribeTry(p, PlainWhisperResult, {0})
       \/ TranscribeFailed(p)
       \/ TranscribeCompleted(p)
  \/ \E p \in Procs :
       \/ /\ NotTranscribing
          /\ p = 1 \/ pc[1] # "idle"
          /\ \E force \in BOOLEAN : SynthesisGet(p, force)
       \/ SynthesisCheck(p)
       \/ SynthesisMark(p)
       \/ SynthesisCall(p, ExtremeLLMRun, {0})
       \/ SynthesisStore(p)
       \/ SynthesisDone(p)
       \/ SynthesisFailed(p)

SpecC == Init /\ [][NextC]_vars

\* SpecR: the provider clients called on their own, over every sequence of
\* upstream behaviours.
NextR ==
  \/ WhisperClientCall(WhisperUpstream)
  \/ OpenAIClientCall(Texts, LLMUpstream)
  \/ SmtpClientCall(SmtpUpstream)

SpecR == Init /\ [][NextR]_vars

\* SpecE: the conversation is transcribed until it has a transcript and
\* synthesized; send_synthesis_email is invoked with every kind of recipient
\* list, participant address and SMTP behaviour.
NextE ==
  \/ AllIdle /\ CreateConversation
  \/ AllIdle /\ AddParticipant(Emails)
  \/ \E p \in {1} :
       \/ AllIdle /\ conv.transcript = None /\ TranscribeGet(p, None)
       \/ TranscribeMark(p)
       \/ TranscribeTry(p, PlainWhisperResult, {0})
       \/ TranscribeFailed(p)
       \/ TranscribeCompleted(p)
       \/ AllIdle /\ \E force \in BOOLEAN : SynthesisGet(p, force)
       \/ SynthesisCheck(p)
       \/ SynthesisMark(p)
       \/ SynthesisCall(p, PlainLLMRun, {0})
       \/ SynthesisStore(p)
       \/ SynthesisDone(p)
       \/ SynthesisFailed(p)
       \/ AllIdle /\ \E custom \in CustomRecipients : EmailGet(p, custom)
       \/ EmailSynthesis(p)
       \/ EmailRecipients(p)
       \/ EmailSend(p, AnySmtpRun, {0})
       \/ EmailSent(p, {0})
       \/ EmailFailed(p)

SpecE == Init /\ [][NextE]_vars

\* SpecW: transcribe_audio invocations on the conversation that overlap;
\* each step of one may fall between two steps of the other.
NextW ==
  \/ AllIdle /\ CreateConversation
  \/ \E p \in Procs :
       \/ TranscribeGet(p, None)
       \/ TranscribeMark(p)
       \/ TranscribeTry(p, PlainWhisperResult, {0})
       \/ TranscribeFailed(p)
       \/ TranscribeCompleted(p)

SpecW == Init /\ [][NextW]_vars

\* SpecD: the repositories called on their own, over several conversations.
NextD ==
  \/ ConversationCreate
  \/ ConversationGetById
  \/ ConversationDelete
  \/ ParticipantCreate
  \/ SynthesisCreate

SpecD == Init /\ [][NextD]_vars

\* SpecQ: conversations are created, their status updated, and queried by
\* status.
NextQ ==
  \/ ConversationCreate
  \/ ConversationUpdate
  \/ ConversationGetByStatus

SpecQ == Init /\ [][NextQ]_vars

\* transcribe_audio with the audio stream: every upstream call either answers,
\* raises an OpenAIError or raises another exception, having read none, some
\* or all of the stream.
StreamUpstream == {UpOk(TextLong), UpErr("openai_api_error"), UpErr("other_error")}

NextA ==
  \/ AllIdle /\ CreateConversation
  \/ \E p \in {1} :
       \/ AllIdle /\ \E prefer \in PreferProviders : TranscribeGet(p, prefer)
       \/ TranscribeMark(p)
       \/ TranscribeTryStream(p, StreamUpstream, 0..AudioLen, {0})
       \/ TranscribeFailed(p)
       \/ TranscribeCompleted(p)

SpecA == Init /\ [][NextA]_vars

\* Transcripts around the minimum length: n letters between pad blanks on
\* each side.
Padded(n, pad) ==
  [i \in 1..(n + 2 * pad) |-> IF i <= pad \/ i > pad + n THEN " " ELSE "w"]

BoundaryTexts ==
  {Padded(0, 0), Padded(0, MinTranscriptLen),
   Padded(MinTranscriptLen - 1, 0), Padded(MinTranscriptLen - 1, 2),
   Padded(MinTranscriptLen, 0), Padded(MinTranscriptLen, 2)}

\* Each upstream call answers, fails transiently or answers malformed.
BoundaryUpstream == {LLMOk(1), LLMErr("openai_api_error"), LLMErr("json_decode_error")}

\* synthesize_transcript on transcripts around the minimum length.
NextV ==
  OpenAIClientCall(BoundaryTexts, BoundaryUpstream)

SpecV == Init /\ [][NextV]_vars

\* The steps of a request once its invocation has passed the precondition
\* checks, with provider calls that return or raise.
PipelineStep(p) ==
  \/ TranscribeMark(p)
  \/ TranscribeTry(p, PlainWhisperResult, {0})
  \/ TranscribeFailed(p)
  \/ TranscribeCompleted(p)
  \/ SynthesisCheck(p)
  \/ SynthesisMark(p)
  \/ SynthesisCall(p, PlainLLMRun, {0})
  \/ SynthesisStore(p)
  \/ SynthesisDone(p)
  \/ SynthesisFailed(p)

NextL ==
  \/ AllIdle /\ CreateConversation
  \/ TranscribeGet(1, None)
  \/ \E force \in BOOLEAN : SynthesisGet(2, force)
  \/ \E p \in Procs : PipelineStep(p)

\* Request 1 transcribes and request 2 synthesizes, at any time and as often
\* as they like.  Each invocation is one synchronous call in its request's thread: once it is
\* under way its next statement is executed, whatever the other request does.
SpecL == Init /\ [][NextL]_vars /\ \A p \in Procs : WF_vars(PipelineStep(p))

(***************************************************************************)
(*                              Properties                                 *)
(***************************************************************************)
\* The rows as they were when the invocation that ended last began.
Before == last.pre[1]

\* The invocation that ended last was a transcribe_audio that found its
\* conversation.
TranscribeEnded == last.op = "transcribe" /\ last.err # "conversation_not_found"

Providers(calls) == [i \in 1..Len(calls) |-> calls[i].provider]

(* C1 -- as claimed: every change of Conversation.status is one of the eight
   listed transitions. *)
ClaimedTransitions ==
  {<<PENDING, TRANSCRIBING>>, <<TRANSCRIBING, COMPLETED>>, <<TRANSCRIBING, FAILED>>,
   <<COMPLETED, SYNTHESIZING>>, <<SYNTHESIZING, COMPLETED>>, <<SYNTHESIZING, FAILED>>,
   <<FAILED, TRANSCRIBING>>, <<FAILED, SYNTHESIZING>>}

C1_ClaimedTransitions ==
  [][conv'.status # conv.status => <<conv.status, conv'.status>> \in ClaimedTransitions]_vars

(* C1 -- amended: under non-overlapping invocations every change of
   Conversation.status is one of the eight listed transitions or
   COMPLETED -> TRANSCRIBING (a conversation transcribed again). *)
C1_StatusTransitions ==
  [][conv'.status # conv.status =>
       <<conv.status, conv'.status>> \in ClaimedTransitions \cup {<<COMPLETED, TRANSCRIBING>>}]_vars

\* A completed conversation is being transcribed again.
C1_Witness ==
  \E p \in Procs : /\ loc[p].op = "transcribe"
                   /\ loc[p].pre # None
                   /\ loc[p].pre[1].conv.status = COMPLETED
                   /\ conv.status = TRANSCRIBING

(* C2 -- in every reachable state error_message is non-null only when
   status = FAILED. *)
C2_ErrorOnlyWhenFailed == conv.error_message # None => conv.status = FAILED

(* C3 -- if every provider attempted by transcribe_audio fails, the invocation
   raises, leaves status = FAILED and an error_message citing the error of the
   last provider called, and transcript, transcript_word_count and
   transcription_provider are as they were before the invocation. *)
C3_AllProvidersFail ==
  (TranscribeEnded /\ \A i \in 1..Len(last.calls) : last.calls[i].err # "") =>
     /\ last.how = "raise"
     /\ last.calls # <<>>
     /\ conv.status = FAILED
     /\ conv.error_message =
          Some(<<"All transcription providers failed. Last error: ",
                 last.calls[Len(last.calls)].err>>)
     /\ conv.transcript = Before.conv.transcript
     /\ conv.transcript_word_count = Before.conv.transcript_word_count
     /\ conv.transcription_provider = Before.conv.transcription_provider

\* Soniox and then Whisper failed on a conversation that had a transcript.
C3_Witness ==
  /\ TranscribeEnded
  /\ Len(last.calls) = 2
  /\ \A i \in 1..2 : last.calls[i].err # ""
  /\ Before.conv.transcript # None
  /\ conv.transcript = Before.conv.transcript
  /\ conv.status = FAILED

(* C4 -- unpinned, Soniox configured and failing, Whisper succeeding: Soniox
   is called before Whisper, the invocation returns, and the recorded
   transcription_provider is Whisper. *)
C4_FallbackOrder ==
  (/\ TranscribeEnded
   /\ last.prefer = None
   /\ apiKey # ""
   /\ \E i \in 1..Len(last.calls) :
        last.calls[i].provider = WHISPER /\ last.calls[i].err = "") =>
     /\ Providers(last.calls) = <<SONIOX, WHISPER>>
     /\ last.calls[1].err # ""
     /\ last.how = "return"
     /\ conv.status = COMPLETED
     /\ conv.transcription_provider = Some(WHISPER)

C4_Witness ==
  /\ TranscribeEnded
  /\ last.prefer = None
  /\ apiKey # ""
  /\ Providers(last.calls) = <<SONIOX, WHISPER>>
  /\ last.calls[2].err = ""
  /\ conv.transcription_provider = Some(WHISPER)

(* C5 -- with prefer_provider = WHISPER the Soniox client is not called at any
   point of the invocation, whatever Whisper does and whether or not Soniox is
   configured. *)
C5_PinnedWhisper ==
  /\ \A p \in Procs :
       (loc[p].op = "transcribe" /\ loc[p].prefer = Some(WHISPER)) =>
          \A i \in 1..Len(loc[p].calls) : loc[p].calls[i].provider # SONIOX
  /\ (last.op = "transcribe" /\ last.prefer = Some(WHISPER)) =>
          \A i \in 1..Len(last.calls) : last.calls[i].provider # SONIOX

\* Whisper was pinned and failed while Soniox is configured.
C5_Witness ==
  /\ TranscribeEnded
  /\ last.prefer = Some(WHISPER)
  /\ apiKey # ""
  /\ last.how = "raise"
  /\ Providers(last.calls) = <<WHISPER>>

\* Whisper is called exactly when no provider called before it returned.
WhisperIffNoEarlierSuccess(calls) ==
  (\E i \in 1..Len(calls) : calls[i].provider = WHISPER)
    <=> ~(\E j \in 1..Len(calls) : calls[j].provider # WHISPER /\ calls[j].err = "")

(* C6 -- as claimed: pinned SONIOX calls Soniox then Whisper; unpinned calls
   Soniox then Whisper when Soniox is configured and Whisper only when it is
   not; Whisper is called iff no earlier provider succeeded; Soniox is never
   called when it is not configured. *)
C6_ClaimedCallSequence ==
  TranscribeEnded =>
     /\ last.prefer = Some(SONIOX) => Providers(last.calls) = <<SONIOX, WHISPER>>
     /\ (last.prefer = None /\ apiKey # "") => Providers(last.calls) = <<SONIOX, WHISPER>>
     /\ (last.prefer = None /\ apiKey = "") => Providers(last.calls) = <<WHISPER>>
     /\ WhisperIffNoEarlierSuccess(last.calls)
     /\ apiKey = "" => \A i \in 1..Len(last.calls) : last.calls[i].provider # SONIOX

(* C6 -- amended: pinned SONIOX calls Soniox then Whisper when Soniox is
   configured and Whisper only when it is not (Soniox is skipped); the
   unpinned cases, the Whisper clause and the Soniox clause are as claimed. *)
C6_CallSequence ==
  TranscribeEnded =>
     /\ (last.prefer = Some(SONIOX) /\ apiKey # "") =>
          Providers(last.calls) = <<SONIOX, WHISPER>>
     /\ (last.prefer = Some(SONIOX) /\ apiKey = "") => Providers(last.calls) = <<WHISPER>>
     /\ (last.prefer = None /\ apiKey # "") => Providers(last.calls) = <<SONIOX, WHISPER>>
     /\ (last.prefer = None /\ apiKey = "") => Providers(last.calls) = <<WHISPER>>
     /\ WhisperIffNoEarlierSuccess(last.calls)
     /\ apiKey = "" => \A i \in 1..Len(last.calls) : last.calls[i].provider # SONIOX

\* Soniox was pinned but is not configured: only Whisper was called.
C6_Witness ==
  /\ TranscribeEnded
  /\ last.prefer = Some(SONIOX)
  /\ apiKey = ""
  /\ Providers(last.calls) = <<WHISPER>>

\* text.split(): the whitespace-separated tokens of s from position i on, cur
\* being the token read so far.
RECURSIVE SplitFrom(_, _, _)
SplitFrom(s, i, cur) ==
  IF i > Len(s) THEN (IF cur = <<>> THEN <<>> ELSE <<cur>>)
  ELSE IF IsSpace(s[i])
    THEN (IF cur = <<>> THEN <<>> ELSE <<cur>>) \o SplitFrom(s, i + 1, <<>>)
  ELSE SplitFrom(s, i + 1, Append(cur, s[i]))

(* C7 -- when a provider succeeds, the step that ends transcribe_audio is one
   update that sets status = COMPLETED, transcript = the text of the call that
   succeeded, transcript_word_count = the number of whitespace-separated
   tokens of that text, transcription_provider = the provider of that call and
   processing_time_seconds = the elapsed seconds truncated, and changes nothing
   else; the call that succeeded is the last call made. *)
C7_SuccessWrite ==
  [][\A p \in Procs :
       (/\ pc[p] = "t_end"
        /\ pc'[p] = "idle"
        /\ \E i \in 1..Len(loc[p].calls) : loc[p].calls[i].err = "") =>
          LET calls == loc[p].calls
              ok == calls[Len(calls)]
          IN /\ ok.err = ""
             /\ \A i \in 1..(Len(calls) - 1) : calls[i].err # ""
             /\ last'.how = "return"
             /\ conv'.status = COMPLETED
             /\ conv'.transcript = Some(ok.text)
             /\ conv'.transcript_word_count = Some(Len(SplitFrom(ok.text, 1, <<>>)))
             /\ conv'.transcription_provider = Some(ok.provider)
             /\ conv'.processing_time_seconds # None
             /\ 2 * conv'.processing_time_seconds[1] <= loc[p].elapsed
             /\ loc[p].elapsed < 2 * conv'.processing_time_seconds[1] + 2
             /\ conv'.exists = conv.exists
             /\ conv'.synthesis_provider = conv.synthesis_provider
             /\ conv'.error_message = conv.error_message
    ]_vars

\* Whisper answered the short text after one retry, 2.5 seconds in all.
C7_Witness ==
  /\ TranscribeEnded
  /\ last.how = "return"
  /\ last.val[1].processing_time_seconds = 5
  /\ conv.processing_time_seconds = Some(2)
  /\ conv.transcript = Some(TextShort)
  /\ conv.transcript_word_count = Some(2)
  /\ conv.error_message # None

\* The invocation that ended last was a generate_synthesis.
SynthesisEnded == last.op = "synthesize"

(* C8 -- generate_synthesis with force_regenerate = false on a conversation
   that already has a Synthesis row makes no client call and writes nothing:
   the conversation row and the Synthesis row are as before the invocation. *)
C8_ShortCircuit ==
  (SynthesisEnded /\ ~last.force_regenerate /\ Before.syn.exists) =>
     /\ last.calls = <<>>
     /\ conv = Before.conv
     /\ syn = Before.syn

\* The existing row was returned for a conversation left FAILED.
C8_Witness ==
  /\ SynthesisEnded
  /\ ~last.force_regenerate
  /\ Before.syn.exists
  /\ last.how = "return"
  /\ conv.status = FAILED

ReturnedFields ==
  <<"synthesis_id", "summary", "key_decisions", "action_items", "open_questions",
    "key_topics">>

(* C9 -- generate_synthesis called right after a generate_synthesis that
   returned, both with force_regenerate = false: the second call returns, with
   the same synthesis_id, summary, key_decisions, action_items, open_questions
   and key_topics as the first. *)
C9_Idempotent ==
  (/\ SynthesisEnded
   /\ ~last.force_regenerate
   /\ last.prev # None
   /\ ~last.prev[1].force_regenerate) =>
     /\ last.how = "return"
     /\ \A i \in 1..Len(ReturnedFields) :
          last.val[1][ReturnedFields[i]] = last.prev[1].val[ReturnedFields[i]]

\* The first call generated the synthesis, the second returned it.
C9_Witness ==
  /\ SynthesisEnded
  /\ ~last.force_regenerate
  /\ last.prev # None
  /\ ~last.prev[1].force_regenerate
  /\ last.prev[1].generated
  /\ last.how = "return"

(* C10 -- when the LLM client call of generate_synthesis raises, the invocation
   raises that error and leaves status = FAILED with an error_message;
   transcript, transcript_word_count and transcription_provider and the
   Synthesis row are as before the invocation. *)
C10_SynthesisFailure ==
  (SynthesisEnded /\ last.calls # <<>> /\ last.calls[1].err # "") =>
     /\ last.how = "raise"
     /\ last.err = last.calls[1].err
     /\ conv.status = FAILED
     /\ conv.error_message = Some(<<"Synthesis failed: ", last.calls[1].err>>)
     /\ conv.transcript = Before.conv.transcript
     /\ conv.transcript_word_count = Before.conv.transcript_word_count
     /\ conv.transcription_provider = Before.conv.transcription_provider
     /\ syn = Before.syn

\* A forced regeneration failed after the retries; the row is kept.
C10_Witness ==
  /\ SynthesisEnded
  /\ last.calls # <<>>
  /\ last.calls[1].err # ""
  /\ last.calls[1].upstream = MaxRetries
  /\ Before.syn.exists
  /\ syn = Before.syn
  /\ conv.status = FAILED

\* The transcript the conversation held when the invocation began.
TranscriptBefore == Before.conv.transcript

(* C11 -- generate_synthesis on a conversation whose transcript is non-empty
   but shorter than MinTranscriptLen characters after trimming: when the
   validation error is raised, the conversation's status and error_message are
   as before the invocation. *)
C11_ShortTranscriptNoMutation ==
  (/\ SynthesisEnded
   /\ last.how = "raise"
   /\ TranscriptBefore # None
   /\ TranscriptBefore # Some(<<>>)
   /\ Len(Strip(TranscriptBefore[1])) < MinTranscriptLen) =>
     /\ conv.status = Before.conv.status
     /\ conv.error_message = Before.conv.error_message

NoTranscript(c) == c.transcript = None \/ c.transcript = Some(<<>>)

C12_RaisesBeforeAnything ==
  (SynthesisEnded /\ Before.conv.exists /\ NoTranscript(Before.conv)) =>
     /\ last.how = "raise"
     /\ last.err = "no_transcript_available"
     /\ last.calls = <<>>
     /\ syn = Before.syn
     /\ conv = Before.conv

C12_CreatedWithTranscript == (~syn.exists /\ syn'.exists) => ~NoTranscript(conv)

(* C12 -- generate_synthesis on a conversation whose transcript is null or
   empty raises the precondition error with no client call, no Synthesis row
   created and the conversation unchanged; and every step that creates a
   Synthesis row is taken while the conversation's transcript is non-empty. *)
C12_TranscriptPrecondition ==
  [](C12_RaisesBeforeAnything) /\ [][C12_CreatedWithTranscript]_vars

\* The precondition error was raised for an empty (not null) transcript of a
\* completed conversation.
C12_Witness ==
  /\ SynthesisEnded
  /\ Before.conv.transcript = Some(<<>>)
  /\ Before.conv.status = COMPLETED
  /\ last.err = "no_transcript_available"

(* C13 -- in every reachable state, under every interleaving of overlapping
   generate_synthesis invocations on the conversation and any number of forced
   regenerations, the conversation has at most one Synthesis row. *)
C13_AtMostOneSynthesis == synCount <= 1

\* Two overlapping invocations both found no row; one inserted, and the
\* insert of the other was refused.
C13_Witness ==
  /\ synCount = 1
  /\ \E p, q \in Procs :
       /\ p # q
       /\ pc[p] = "s_done" \/ pc[p] = "idle"
       /\ pc[q] = "s_fail"
       /\ loc[q].existing_synthesis = None
       /\ loc[q].last_error = Some("integrity_error")

\* A forced regeneration of an existing row returned.
Regenerated ==
  /\ SynthesisEnded
  /\ last.force_regenerate
  /\ last.how = "return"
  /\ Before.syn.exists

\* The row holds the result the invocation returned, under the same id, and
\* is the only row.
HoldsNewResult ==
  /\ syn.exists
  /\ syn.id = Before.syn.id
  /\ syn.id = last.val[1].synthesis_id
  /\ synCount = 1
  /\ syn.summary = last.val[1].summary
  /\ syn.summary_word_count = Some(Len(SplitFrom(syn.summary, 1, <<>>)))
  /\ syn.key_decisions = last.val[1].key_decisions
  /\ syn.action_items = last.val[1].action_items
  /\ syn.open_questions = last.val[1].open_questions
  /\ syn.key_topics = last.val[1].key_topics
  /\ syn.llm_model = last.val[1].llm_model
  /\ syn.llm_tokens_used = last.val[1].llm_tokens_used
  /\ syn.processing_time_seconds = last.val[1].processing_time_seconds

DeliveryFields(row) ==
  <<row.email_sent_at, row.email_recipients, row.email_delivery_status>>

(* C14 as claimed -- after a forced regeneration of an existing row the row
   holds the new result and no field holds a value from before: the delivery
   fields that were set no longer have their earlier values. *)
C14_ClaimedOverwriteEveryField ==
  Regenerated =>
     /\ HoldsNewResult
     /\ Before.syn.email_sent_at # None => syn.email_sent_at # Before.syn.email_sent_at
     /\ Before.syn.email_recipients # None =>
          syn.email_recipients # Before.syn.email_recipients
     /\ Before.syn.email_delivery_status # None =>
          syn.email_delivery_status # Before.syn.email_delivery_status

(* C14 -- after generate_synthesis with force_regenerate = true on a
   conversation that has a Synthesis row, the row keeps its identifier, is
   the only row, and its nine content fields hold the new result; its
   confidence_score and delivery fields are as before the regeneration. *)
C14_OverwriteContentFields ==
  Regenerated =>
     /\ HoldsNewResult
     /\ syn.confidence_score = Before.syn.confidence_score
     /\ DeliveryFields(syn) = DeliveryFields(Before.syn)

\* A synthesis that had been sent was regenerated with a different summary.
C14_Witness ==
  /\ Regenerated
  /\ Before.syn.email_delivery_status = Some("sent")
  /\ syn.summary # Before.syn.summary

\* The step is the write of a send_synthesis_email invocation.
DeliveryWrite ==
  \E p \in Procs : (pc[p] = "e_sent" \/ pc[p] = "e_failed") /\ pc'[p] = "idle"

(* C15 -- every step that changes email_sent_at, email_recipients or
   email_delivery_status of the Synthesis row is the write of
   send_synthesis_email; no step of transcribe_audio or generate_synthesis,
   creation and forced regeneration included, changes them. *)
C15_DeliveryFieldsOwner ==
  [][DeliveryFields(syn') # DeliveryFields(syn) => DeliveryWrite]_vars

\* The LLM was called for a forced regeneration of a row whose delivery had
\* failed, and the delivery fields are as they were.
C15_Witness ==
  /\ Regenerated
  /\ last.calls # <<>>
  /\ Before.syn.email_delivery_status = Some("failed")
  /\ DeliveryFields(syn) = DeliveryFields(Before.syn)

\* The invocation that ended last was a call of a provider client.
WhisperEnded == last.op = "whisper_transcribe"
OpenAIEnded ==
  /\ last.op = "openai_synthesize"
  /\ Len(Strip(last.transcript[1])) >= MinTranscriptLen
SmtpEnded == last.op = "smtp_send_email"

\* The client's own record of the call: upstream calls made, sleeps taken.
TheCall == last.calls[1]

(* C16 -- when the first upstream call of WhisperClient.transcribe or of
   OpenAISynthesisClient.synthesize_transcript fails with an authentication
   error, exactly one upstream call is made, no backoff sleep happens and the
   error is raised. *)
C16_AuthNotRetried ==
  ((WhisperEnded \/ OpenAIEnded) /\ last.outs[1].kind = "openai_auth_error") =>
     /\ TheCall.upstream = 1
     /\ TheCall.sleeps = <<>>
     /\ last.how = "raise"
     /\ last.err = "openai_auth_error"

\* The failures each client treats as transient.
TransientOnly ==
  \/ /\ WhisperEnded
     /\ \A k \in 1..MaxRetries :
          last.outs[k].kind = "ok" \/ last.outs[k].kind = "openai_api_error"
  \/ /\ OpenAIEnded
     /\ \A k \in 1..MaxRetries :
          \/ last.outs[k].kind = "ok"
          \/ last.outs[k].kind = "openai_api_error"
          \/ last.outs[k].kind = "json_decode_error"
  \/ /\ SmtpEnded
     /\ \A k \in 1..MaxRetries : last.outs[k] = "ok" \/ last.outs[k] = "smtp_error"

Succeeds(k) == IF SmtpEnded THEN last.outs[k] = "ok" ELSE last.outs[k].kind = "ok"

\* The first attempt that succeeds, MaxRetries + 1 when none does.
RECURSIVE FirstSuccessFrom(_)
FirstSuccessFrom(k) ==
  IF k > MaxRetries THEN k
  ELSE IF Succeeds(k) THEN k
  ELSE FirstSuccessFrom(k + 1)

\* 2^k seconds after failed attempt k, in half seconds, for attempts 1..n.
ExponentialSleeps(n) == [k \in 1..n |-> 2 * (2 ^ k)]

(* C17 -- a provider client (Whisper transcribe, OpenAI synthesize_transcript,
   SMTP send_email) facing only transient failures makes at most MaxRetries
   upstream calls, sleeps 2^k seconds after failed attempt k when another
   attempt follows, returns at the first attempt that succeeds, and raises
   after attempt MaxRetries failed, with no sleep after it. *)
C17_RetryBackoff ==
  TransientOnly =>
    LET first == FirstSuccessFrom(1) IN
    /\ TheCall.upstream <= MaxRetries
    /\ first <= MaxRetries =>
         /\ last.how = "return"
         /\ TheCall.upstream = first
         /\ TheCall.sleeps = ExponentialSleeps(first - 1)
    /\ first > MaxRetries =>
         /\ last.how = "raise"
         /\ last.err # ""
         /\ TheCall.upstream = MaxRetries
         /\ TheCall.sleeps = ExponentialSleeps(MaxRetries - 1)

\* The synthesis client met a malformed answer, then an API error, then an
\* answer, and slept 2 and 4 seconds.
C17_Witness ==
  /\ OpenAIEnded
  /\ last.outs[1].kind = "json_decode_error"
  /\ last.outs[2].kind = "openai_api_error"
  /\ last.how = "return"
  /\ TheCall.upstream = MaxRetries
  /\ TheCall.sleeps = <<4, 8>>

\* The first connection that does not fail with a retried error,
\* MaxRetries + 1 when every one does.
RECURSIVE FirstNotRetriedFrom(_)
FirstNotRetriedFrom(k) ==
  IF k > MaxRetries THEN k
  ELSE IF last.outs[k] # "smtp_error" THEN k
  ELSE FirstNotRetriedFrom(k + 1)

(* C18 -- SMTPClient.send_email makes no connection attempt after one that
   failed with an authentication error and raises (one attempt in all when
   the first fails so); a connection that fails otherwise is followed by
   another until MaxRetries attempts are made, and then the error is raised. *)
C18_SmtpAuthNotRetried ==
  SmtpEnded =>
    LET k == FirstNotRetriedFrom(1) IN
    /\ (k <= MaxRetries /\ last.outs[k] = "smtp_authentication_error") =>
         /\ last.how = "raise"
         /\ last.err = "smtp_authentication_failed"
         /\ TheCall.upstream = k
    /\ k > MaxRetries =>
         /\ last.how = "raise"
         /\ last.err = "smtp_error"
         /\ TheCall.upstream = MaxRetries
    /\ (k <= MaxRetries /\ last.outs[k] = "ok") =>
         /\ last.how = "return"
         /\ TheCall.upstream = k

\* The login was refused at the first connection; the later connections, which
\* would have succeeded, were not made.
C18_Witness ==
  /\ SmtpEnded
  /\ last.outs[1] = "smtp_authentication_error"
  /\ last.outs[2] = "ok"
  /\ last.how = "raise"
  /\ TheCall.upstream = 1

EmailEnded == last.op = "send_email"

\* The invocation found the conversation and its synthesis, so it went on to
\* resolve the recipients.
EmailResolving ==
  /\ EmailEnded
  /\ last.err # "conversation_not_found"
  /\ last.err # "synthesis_not_found"

\* The caller gave a non-empty explicit recipient list.
ExplicitList == last.custom_recipients # None /\ last.custom_recipients[1] # <<>>

IsAddress(e) == e # ""
\* The participants the conversation had during the invocation.
Invited == last.pre[1].participants
\* Their addresses that are not empty, in the participants' order.
Addresses == SelectSeq(Invited, IsAddress)

\* The invocation raised while resolving the recipients and made no SMTP call.
RaisedUnsent(err) ==
  /\ last.how = "raise"
  /\ last.err = err
  /\ last.calls = <<>>
  /\ syn = last.pre[1].syn

\* The invocation handed these recipients to the SMTP client, once.
SentTo(recipients) ==
  /\ Len(last.calls) = 1
  /\ last.recipients = recipients
  /\ last.how = "return" => last.val[1].recipients = recipients

\* C19 as stated: without an explicit list the recipients are the addresses of
\* all the participants.
C19_ClaimedRecipients ==
  EmailResolving =>
    /\ ExplicitList => SentTo(last.custom_recipients[1])
    /\ (~ExplicitList /\ Invited # <<>>) => SentTo(Invited)
    /\ (~ExplicitList /\ Invited = <<>>) => RaisedUnsent("no_participants_found")

(* C19 -- send_synthesis_email resolves the recipients so: a non-empty explicit
   list is used as is, whatever the participants are; otherwise the recipients
   are the non-empty addresses of the conversation's participants, in order
   (both addresses when two participants have one); with no participants, or
   with participants whose addresses are all empty, it raises, makes no SMTP
   call and leaves the Synthesis row as it was. *)
C19_Recipients ==
  EmailResolving =>
    /\ ExplicitList => SentTo(last.custom_recipients[1])
    /\ (~ExplicitList /\ Addresses # <<>>) => SentTo(Addresses)
    /\ (~ExplicitList /\ Invited = <<>>) => RaisedUnsent("no_participants_found")
    /\ (~ExplicitList /\ Invited # <<>> /\ Addresses = <<>>) =>
         RaisedUnsent("no_valid_email_addresses")

\* Two participants with an address each and no explicit list: the email went
\* to exactly those two.
C19_Witness ==
  /\ EmailEnded
  /\ last.custom_recipients = None
  /\ Invited = <<"alice@example.com", "bob@example.com">>
  /\ last.how = "return"
  /\ last.val[1].recipients = <<"alice@example.com", "bob@example.com">>

\* The invocation reached the SMTP client.
EmailAttempted == EmailEnded /\ last.calls # <<>>

(* C20 -- after send_synthesis_email returns, the Synthesis row has
   email_delivery_status "sent" and email_recipients equal to the recipients
   it resolved and returned; after the SMTP send raises, the row has
   email_delivery_status "failed" and the invocation raises the client's
   error; email_delivery_status is never anything but null, "sent" or
   "failed". *)
C20_DeliveryStatus ==
  /\ (EmailEnded /\ last.how = "return") =>
       /\ EmailAttempted
       /\ TheCall.err = ""
       /\ syn.email_delivery_status = Some("sent")
       /\ syn.email_recipients = Some(last.recipients)
       /\ last.val[1].recipients = last.recipients
  /\ (EmailAttempted /\ TheCall.err # "") =>
       /\ last.how = "raise"
       /\ last.err = TheCall.err
       /\ syn.email_delivery_status = Some("failed")
  /\ \/ syn.email_delivery_status = None
     \/ syn.email_delivery_status = Some("sent")
     \/ syn.email_delivery_status = Some("failed")

\* A send failed after an earlier one had succeeded: the row says "failed" and
\* still lists the recipients of the earlier send.
C20_Witness ==
  /\ EmailAttempted
  /\ last.how = "raise"
  /\ last.err = "smtp_error"
  /\ syn.email_delivery_status = Some("failed")
  /\ syn.email_recipients = Some(<<"carol@example.com">>)

(* C21 -- as stated: after a successful send the row's email_sent_at is the
   timestamp the SMTP client reported, the value send_synthesis_email returns
   as sent_at. *)
C21_SentAtIsProviderTimestamp ==
  (EmailEnded /\ last.how = "return") =>
    syn.email_sent_at = Some(last.val[1].sent_at)

\* The invocation raised this error before it reached the SMTP client.
RaisedBeforeSend(err) ==
  /\ last.how = "raise"
  /\ last.err = err
  /\ last.calls = <<>>

C22_PreconditionRaises ==
  EmailEnded =>
    /\ ~Before.conv.exists => RaisedBeforeSend("conversation_not_found")
    /\ (Before.conv.exists /\ ~Before.syn.exists) => RaisedBeforeSend("synthesis_not_found")
    /\ (Before.conv.exists /\ Before.syn.exists /\ ~ExplicitList /\ Invited = <<>>) =>
         RaisedBeforeSend("no_participants_found")

\* The step ends a send_synthesis_email invocation that made no SMTP call.
EndsUnsent == last' # last /\ last'.op = "send_email" /\ last'.calls = <<>>

C22_RowsUntouched ==
  EndsUnsent =>
    /\ last'.how = "raise"
    /\ conv' = last'.pre[1].conv
    /\ DeliveryFields(syn') = DeliveryFields(last'.pre[1].syn)

(* C22 -- send_synthesis_email on a conversation that does not exist, that has
   no Synthesis row, or that has no participants while no explicit recipients
   are given raises without an SMTP call; and when such an invocation ends,
   the conversation and the delivery fields of the Synthesis row are as they
   were when it began. *)
C22_EmailPreconditions ==
  [](C22_PreconditionRaises) /\ [][C22_RowsUntouched]_vars

\* An earlier send to an explicit list succeeded; a later invocation without a
\* list found no participants, raised, and the row still says "sent".
C22_Witness ==
  /\ EmailEnded
  /\ last.err = "no_participants_found"
  /\ last.custom_recipients = Some(<<>>)
  /\ Before.syn.email_delivery_status = Some("sent")
  /\ syn.email_delivery_status = Some("sent")

\* The invocation that ended last was a transcribe_audio or a
\* generate_synthesis.
PipelineEnded == last.op = "transcribe" \/ last.op = "synthesize"

C23_NotFoundRaises ==
  (PipelineEnded /\ ~Before.conv.exists) =>
    /\ last.how = "raise"
    /\ last.err = "conversation_not_found"
    /\ last.calls = <<>>

\* The step ends a transcribe_audio or generate_synthesis with not found.
EndsNotFound ==
  /\ last' # last
  /\ last'.op = "transcribe" \/ last'.op = "synthesize"
  /\ last'.err = "conversation_not_found"

C23_NothingWritten ==
  EndsNotFound =>
    /\ ~last'.pre[1].conv.exists
    /\ conv' = last'.pre[1].conv
    /\ syn' = last'.pre[1].syn
    /\ synCount' = synCount
    /\ participants' = participants
    /\ ~conv'.exists /\ ~syn'.exists

(* C23 -- transcribe_audio and generate_synthesis invoked while the
   conversation does not exist raise not found without a provider call; and
   when an invocation ends with not found, no row was created or changed
   since it began. *)
C23_NotFound ==
  [](C23_NotFoundRaises) /\ [][C23_NothingWritten]_vars

\* A forced generate_synthesis raised not found.
C23_Witness ==
  /\ last.op = "synthesize"
  /\ last.force_regenerate
  /\ last.err = "conversation_not_found"
  /\ last.calls = <<>>
  /\ ~conv.exists

\* The step creates the conversation, in PENDING.
Creation ==
  /\ ~conv.exists
  /\ conv'.exists
  /\ conv'.status = PENDING
  /\ AllIdle
  /\ pc' = pc

\* The step is one of transcribe_audio or generate_synthesis that follows the
\* lookup of the conversation.
OrchestratorStep ==
  \E p \in Procs :
    /\ pc'[p] # pc[p]
    /\ \/ pc[p] = "t_mark" \/ pc[p] = "t_try" \/ pc[p] = "t_end"
       \/ pc[p] = "s_check" \/ pc[p] = "s_mark" \/ pc[p] = "s_call"
       \/ pc[p] = "s_store" \/ pc[p] = "s_done" \/ pc[p] = "s_fail"

\* The step belongs to a send_synthesis_email invocation.
EmailStep ==
  \/ last' # last /\ last'.op = "send_email"
  \/ \E p \in Procs : loc[p].op = "send_email" \/ loc'[p].op = "send_email"

\* The step ends a send_synthesis_email invocation.
EndsEmail == last' # last /\ last'.op = "send_email"

(* C24 -- every step that changes the conversation row is its creation, in
   PENDING, or a step of transcribe_audio or generate_synthesis; no step of
   send_synthesis_email changes any field of the conversation, and when an
   invocation of it ends, returning or raising, the conversation is as it was
   when the invocation began. *)
C24_ConversationOwners ==
  [][/\ conv' # conv => (Creation \/ OrchestratorStep)
     /\ EmailStep => conv' = conv
     /\ EndsEmail => conv' = last'.pre[1].conv]_vars

\* The send failed at the SMTP client and the conversation is still COMPLETED
\* with no error message.
C24_Witness ==
  /\ EmailAttempted
  /\ last.how = "raise"
  /\ TheCall.upstream = MaxRetries
  /\ conv.status = COMPLETED
  /\ conv.error_message = None

\* The conversation was left FAILED by generate_synthesis.
FailedBySynthesis(c) ==
  /\ c.exists
  /\ c.status = FAILED
  /\ c.error_message # None
  /\ c.error_message[1][1] = "Synthesis failed: "

\* The step ends a transcribe_audio that began on a FAILED conversation.
EndsRetriedTranscription ==
  /\ last' # last
  /\ last'.op = "transcribe"
  /\ last'.pre[1].conv.exists
  /\ last'.pre[1].conv.status = FAILED

\* The step ends a generate_synthesis that began on a conversation with a
\* transcript which a failed synthesis had left FAILED.
EndsRetriedSynthesis ==
  /\ last' # last
  /\ last'.op = "synthesize"
  /\ FailedBySynthesis(last'.pre[1].conv)
  /\ ~NoTranscript(last'.pre[1].conv)

\* The invocation that is ending returns the existing row unchanged.
ShortCircuits == last'.pre[1].syn.exists /\ ~last'.force_regenerate

\* Until its last write the transcription kept the status TRANSCRIBING, and
\* it ends COMPLETED when it returns.
ReenteredTranscribing ==
  /\ conv.status = TRANSCRIBING
  /\ last'.how = "return" => conv'.status = COMPLETED

ReenteredSynthesizing ==
  /\ conv.status = SYNTHESIZING
  /\ last'.how = "return" => conv'.status = COMPLETED

\* C25 as stated: every such generate_synthesis enters SYNTHESIZING.
C25_ClaimedReentry ==
  [][/\ EndsRetriedTranscription => ReenteredTranscribing
     /\ EndsRetriedSynthesis => ReenteredSynthesizing]_vars

(* C25 -- FAILED is not absorbing: a transcribe_audio begun on a FAILED
   conversation has the status TRANSCRIBING until it ends, and ends COMPLETED
   when a provider answers; a generate_synthesis begun on a conversation with
   a transcript that a failed synthesis left FAILED has the status
   SYNTHESIZING until it ends and ends COMPLETED when it returns, provided it
   is forced or no Synthesis row exists; unforced with a row present it
   returns the row, calls nothing and leaves the status FAILED. *)
C25_Reentry ==
  [][/\ EndsRetriedTranscription => ReenteredTranscribing
     /\ (EndsRetriedSynthesis /\ ~ShortCircuits) => ReenteredSynthesizing
     /\ (EndsRetriedSynthesis /\ ShortCircuits) =>
          /\ last'.how = "return"
          /\ last'.calls = <<>>
          /\ conv' = last'.pre[1].conv
          /\ conv'.status = FAILED]_vars

\* A forced generate_synthesis on a conversation that a failed synthesis had
\* left FAILED returned, and the conversation is COMPLETED.
C25_Witness ==
  /\ SynthesisEnded
  /\ FailedBySynthesis(Before.conv)
  /\ Before.syn.exists
  /\ last.force_regenerate
  /\ last.how = "return"
  /\ conv.status = COMPLETED

\* A transcribe_audio on a FAILED conversation returned, and the conversation
\* is COMPLETED.
RetriedTranscriptionCompleted ==
  /\ TranscribeEnded
  /\ Before.conv.status = FAILED
  /\ last.how = "return"
  /\ conv.status = COMPLETED

\* The step is the successful end of a transcribe_audio, which stores the
\* text it returns.
TranscriptionCompletes ==
  /\ last' # last
  /\ last'.op = "transcribe"
  /\ last'.how = "return"
  /\ conv'.transcript = Some(last'.val[1].text)
  /\ conv'.status = COMPLETED

\* The step is the end of a transcribe_audio that raises.
TranscriptionFails == last' # last /\ last'.op = "transcribe" /\ last'.how = "raise"

C26_TranscriptWrites ==
  /\ conv'.transcript # conv.transcript => TranscriptionCompletes
  /\ TranscriptionFails => conv'.transcript = last'.pre[1].conv.transcript

C26_NullBeforeCompletion ==
  /\ ~conv.exists => conv.transcript = None
  /\ conv.status = PENDING => conv.transcript = None
  /\ conv.transcription_provider = None => conv.transcript = None

(* C26 -- the transcript changes only in the step in which a transcribe_audio
   ends successfully and stores the text it returns, so a non-null transcript
   was stored by a transcription that completed: it is null in PENDING and
   until a first transcription has completed, and a transcription that raises
   leaves it as it was when the invocation began. *)
C26_TranscriptOrigin ==
  [](C26_NullBeforeCompletion) /\ [][C26_TranscriptWrites]_vars

\* The first transcription of the conversation failed after a provider was
\* called; the transcript is still null.
C26_Witness ==
  /\ TranscribeEnded
  /\ Before.conv.status = PENDING
  /\ last.how = "raise"
  /\ last.calls # <<>>
  /\ conv.status = FAILED
  /\ conv.transcript = None

C27_StatusInEnum ==
  \/ conv.status = PENDING
  \/ conv.status = TRANSCRIBING
  \/ conv.status = SYNTHESIZING
  \/ conv.status = COMPLETED
  \/ conv.status = FAILED

C27_CreatedPending == (~conv.exists /\ conv'.exists) => conv'.status = PENDING

(* C27 -- in every reachable state, inside and between invocations that may
   overlap, the conversation's status is one of PENDING, TRANSCRIBING,
   SYNTHESIZING, COMPLETED and FAILED, and the step that creates the
   conversation leaves it in PENDING. *)
C27_StatusDomain ==
  [](C27_StatusInEnum) /\ [][C27_CreatedPending]_vars

\* Inside a generate_synthesis, before its LLM call, the status is FAILED:
\* an overlapping invocation has just failed.
C27_Witness ==
  /\ conv.exists
  /\ conv.status = FAILED
  /\ \E p \in Procs : pc[p] = "s_call"

(* C28 -- overlapping transcribe_audio invocations write the status without
   regard to each other, so the write made last stands: when every invocation
   has ended, the status is COMPLETED if the one that ended last returned and
   FAILED, with its error message, if it raised, whatever an overlapping
   invocation stored in between. *)
C28_LastWriteStands ==
  (AllIdle /\ TranscribeEnded) =>
    /\ last.how = "return" =>
         /\ conv.status = COMPLETED
         /\ conv.transcript = Some(last.val[1].text)
    /\ last.how = "raise" =>
         /\ conv.status = FAILED
         /\ conv.error_message = Some(last.val[1])

\* An invocation that began on a conversation without transcript has raised
\* and left the status FAILED, although an invocation that overlapped it
\* stored a transcript and returned.
C28_Witness ==
  /\ AllIdle
  /\ TranscribeEnded
  /\ last.how = "raise"
  /\ last.pre # None
  /\ last.pre[1].conv.transcript = None
  /\ conv.transcript # None
  /\ conv.status = FAILED

\* The argument and the result of the repository call that ended last.
RepoArg == last.val[1].arg
RepoRet == last.val[1].ret

\* The identifier was returned by some create.
EverCreated(id) == id \in db.deleted \/ \E r \in db.created : r.id = id

\* The record has the fields the caller gave to create.
AsGiven(rec, id, kwargs) ==
  /\ rec.id = id
  /\ rec.title = kwargs.title
  /\ rec.status = (IF kwargs.status = None THEN PENDING ELSE kwargs.status[1])
  /\ rec.platform = kwargs.platform

(* C29 -- right after conversation_repo.create, get_by_id of the identifier it
   returned yields a record with that identifier and the title, status (PENDING
   when none was given) and platform passed to create; every get_by_id of an
   identifier that create returned and delete has not removed yields the
   record create returned; get_by_id of an identifier never created, or of
   one that was deleted, yields no record. *)
C29_RoundTrip ==
  /\ last.op = "repo_create" =>
       LET got == GetById(db.conversations, RepoRet[1].id)
       IN /\ got # None
          /\ AsGiven(got[1], RepoRet[1].id, RepoArg)
          /\ AsGiven(RepoRet[1], RepoRet[1].id, RepoArg)
  /\ last.op = "repo_get" =>
       /\ ~EverCreated(RepoArg) => RepoRet = None
       /\ RepoArg \in db.deleted => RepoRet = None
       /\ (EverCreated(RepoArg) /\ RepoArg \notin db.deleted) =>
            /\ RepoRet # None
            /\ RepoRet[1].id = RepoArg
            /\ RepoRet[1] \in db.created

\* After another conversation was deleted, get_by_id returned a conversation
\* created without a status: it is PENDING, on the platform given.
C29_Witness ==
  /\ last.op = "repo_get"
  /\ db.deleted # {}
  /\ RepoRet # None
  /\ RepoRet[1].title = "Test Meeting"
  /\ RepoRet[1].status = PENDING
  /\ RepoRet[1].platform = Some("zoom")

\* Every row of a child table belongs to a conversation that exists.
C30_NoOrphans ==
  /\ \A r \in db.participants : GetById(db.conversations, r.conversation_id) # None
  /\ \A r \in db.syntheses : GetById(db.conversations, r.conversation_id) # None

\* The step is a call of conversation_repo.delete.
DeleteStep == last' # last /\ last'.op = "repo_delete"

C30_DeleteReports ==
  DeleteStep =>
    LET id == last'.val[1].arg
    IN /\ last'.val[1].ret = (\E r \in db.conversations : r.id = id)
       /\ \A r \in db'.conversations : r.id # id
       /\ \A r \in db'.participants \cup db'.syntheses : r.conversation_id # id
       /\ \A r \in db.conversations : r.id # id => r \in db'.conversations
       /\ \A r \in db.participants : r.conversation_id # id => r \in db'.participants
       /\ \A r \in db.syntheses : r.conversation_id # id => r \in db'.syntheses

(* C30 -- in every reachable state every Participant row and every Synthesis
   row references a conversation that exists; conversation_repo.delete returns
   True exactly when the conversation existed, and after it neither the
   conversation nor any participant or synthesis of it remains, while the
   rows of the other conversations are kept. *)
C30_CascadeDelete ==
  [](C30_NoOrphans) /\ [][C30_DeleteReports]_vars

\* A conversation was deleted together with its participant, the first row
\* of the participants table: the row left belongs to the second
\* conversation, which still exists.
C30_Witness ==
  /\ last.op = "repo_delete"
  /\ RepoRet = TRUE
  /\ db.syntheses = {}
  /\ \E r \in db.participants : r.id = 2
  /\ \A r \in db.participants : r.id # 1
  /\ \E r \in db.created : r.id = 2

\* The conversations whose current status is s.
WithStatus(rows, s) == {r \in rows : r.status = s}

\* The set of the elements of a sequence.
Range(seq) == {seq[i] : i \in 1..Len(seq)}

C31_QueryResult ==
  last.op = "repo_get_by_status" =>
    LET s == RepoArg.status
        limit == RepoArg.limit
        all == WithStatus(db.conversations, s)
    IN /\ Range(RepoRet) \subseteq all
       /\ Cardinality(Range(RepoRet)) = Len(RepoRet)
       /\ Len(RepoRet) <= limit
       /\ Cardinality(all) <= limit => Range(RepoRet) = all
       /\ Cardinality(all) > limit => Len(RepoRet) = limit

\* The step is an update that changed the status of a conversation.
StatusUpdated ==
  /\ last' # last
  /\ last'.op = "repo_update"
  /\ last'.val[1].ret # None
  /\ GetById(db.conversations, last'.val[1].arg.id)[1].status # last'.val[1].arg.status

C31_UpdateSeen ==
  StatusUpdated =>
    LET id == last'.val[1].arg.id
        old == GetById(db.conversations, id)[1].status
        new == last'.val[1].arg.status
    IN /\ \E r \in Range(GetByStatus(db'.conversations, new, DefaultLimit)) : r.id = id
       /\ \A r \in Range(GetByStatus(db'.conversations, old, DefaultLimit)) : r.id # id
       /\ \E r \in Range(GetByStatus(db.conversations, old, DefaultLimit)) : r.id = id

(* C31 -- get_by_status(s, limit) returns, without repetition, only
   conversations whose current status is s, all of them when they are at most
   limit and limit of them otherwise; after update changed a conversation's
   status, get_by_status of the new status returns it and get_by_status of
   the old status, which returned it before, no longer does. *)
C31_GetByStatus ==
  [](C31_QueryResult) /\ [][C31_UpdateSeen]_vars

\* get_by_status(COMPLETED) returned two conversations, one created PENDING
\* and completed by update, newest first.
C31_Witness ==
  /\ last.op = "repo_get_by_status"
  /\ RepoArg.status = COMPLETED
  /\ Len(RepoRet) = 2
  /\ RepoRet[1].id > RepoRet[2].id
  /\ \E i \in 1..2 : RepoRet[i] \notin db.created

\* The step is a provider call of a transcribe_audio invocation.
ProviderCalled(p) ==
  /\ loc[p].op = "transcribe"
  /\ Len(loc'[p].calls) > Len(loc[p].calls)

C32_CalledWhileTranscribing ==
  \A p \in Procs :
    ProviderCalled(p) =>
      /\ conv.exists
      /\ conv.status = TRANSCRIBING
      /\ conv'.status = TRANSCRIBING

C32_NoCallBeforeMark ==
  \A p \in Procs :
    /\ pc[p] = "t_mark" => (loc[p].calls = <<>> /\ conv.exists)
    /\ pc[p] = "t_try" => conv.status = TRANSCRIBING

(* C32 -- in transcribe_audio the conversation is found to exist, then
   status = TRANSCRIBING is written, then the providers are called: no call has
   been made when the write is due, and every provider call of an invocation
   that does not overlap another is made while the persisted status is
   TRANSCRIBING. *)
C32_MarkBeforeCalls ==
  [](C32_NoCallBeforeMark) /\ [][C32_CalledWhileTranscribing]_vars

\* Soniox and then Whisper have been called for a conversation that was
\* FAILED when the invocation began; the status is TRANSCRIBING.
C32_Witness ==
  \E p \in Procs :
    /\ pc[p] = "t_end"
    /\ Len(loc[p].calls) = 2
    /\ loc[p].pre[1].conv.status = FAILED
    /\ conv.status = TRANSCRIBING

\* The row holds the content of the LLM result res.
RowHoldsResult(row, res) ==
  /\ row.exists
  /\ row.summary = res.summary
  /\ row.key_decisions = Some(res.key_decisions)
  /\ row.action_items = Some(res.action_items)
  /\ row.open_questions = Some(res.open_questions)
  /\ row.key_topics = Some(res.key_topics)
  /\ row.llm_model = Some(res.llm_model)
  /\ row.llm_tokens_used = Some(res.llm_tokens_used)

\* The steps of generate_synthesis past the short-circuit, by what they do.
WritesSynthesizing(p) == pc[p] = "s_mark" /\ pc'[p] # "s_mark"
InvokesLLM(p) == loc[p].op = "synthesize" /\ Len(loc'[p].calls) > Len(loc[p].calls)
StoresRow(p) == pc[p] = "s_store" /\ pc'[p] = "s_done"
WritesCompleted(p) == pc[p] = "s_done" /\ pc'[p] = "idle"

\* Each step finds the earlier ones done and the later ones not yet done.
C33_StepOrder ==
  \A p \in Procs :
    /\ WritesSynthesizing(p) =>
         /\ loc[p].calls = <<>>
         /\ conv'.status = SYNTHESIZING
         /\ syn' = syn
         /\ pc'[p] = "s_call"
    /\ InvokesLLM(p) =>
         /\ pc[p] = "s_call"
         /\ loc[p].calls = <<>>
         /\ syn' = syn /\ conv' = conv
    /\ StoresRow(p) =>
         /\ Len(loc[p].calls) = 1
         /\ loc[p].synthesis_result # None
         /\ RowHoldsResult(syn', loc[p].synthesis_result[1])
         /\ conv' = conv
    /\ WritesCompleted(p) =>
         /\ Len(loc[p].calls) = 1
         /\ conv'.status = COMPLETED
         /\ syn' = syn
         /\ syn.exists
         /\ synCount = 1
         /\ last'.how = "return"
    /\ (syn' # syn) => \E q \in Procs : StoresRow(q)

\* When COMPLETED is written the row holds the result of the writing
\* invocation.
C33_HoldsOwnResult ==
  \A p \in Procs :
    WritesCompleted(p) => RowHoldsResult(syn, loc[p].synthesis_result[1])

\* C33 as stated: whenever generate_synthesis has written COMPLETED, the row
\* holds that invocation's result.
C33_ClaimedOrder == [][C33_StepOrder /\ C33_HoldsOwnResult]_vars

(* C33 -- past the short-circuit generate_synthesis writes SYNTHESIZING, then
   invokes the LLM once, then creates or updates the Synthesis row so that it
   holds the result, then writes COMPLETED, in every interleaving; when
   COMPLETED is written exactly one Synthesis row exists.  (It holds the
   invocation's own result unless an overlapping invocation stored its result
   after this one did.) *)
C33_SynthesisOrder == [][C33_StepOrder]_vars

\* COMPLETED has been written by an invocation while the row holds another
\* result than the one it returned: an overlapping invocation stored later.
C33_Witness ==
  /\ SynthesisEnded
  /\ last.how = "return"
  /\ last.calls # <<>>
  /\ conv.status = COMPLETED
  /\ syn.exists
  /\ syn.summary # last.val[1].summary

(* C34 -- every upstream transcription call of an invocation (the first
   attempt of a provider and every retry inside the Whisper client) finds the
   stream positioned at its start, and the stream is at its start again after a
   provider has failed. *)
C34_StreamAtStart ==
  \A p \in Procs :
    /\ \A k \in 1..Len(loc[p].audio.starts) : loc[p].audio.starts[k] = 0
    /\ (pc[p] = "t_try" \/ (pc[p] = "t_end" /\ loc[p].transcript_result = None)) =>
         loc[p].audio.pos = 0
    /\ (pc[p] = "t_try" \/ pc[p] = "t_end") =>
         Len(loc[p].audio.starts) = SumSeq([k \in 1..Len(loc[p].calls) |-> loc[p].calls[k].upstream])

\* The Whisper client made three upstream calls that each read the stream to
\* its end, the third after two retries.
C34_Witness ==
  /\ pc[1] = "t_end"
  /\ Len(loc[1].audio.starts) = MaxRetries
  /\ loc[1].audio.pos = AudioLen
  /\ loc[1].transcript_result # None

\* Attempt k of the synthesis client failed with a transient error or a
\* malformed answer.
Retryable(k) ==
  \/ last.outs[k].kind = "openai_api_error"
  \/ last.outs[k].kind = "json_decode_error"

\* Every upstream call answers, fails transiently or answers malformed.
MixedFailures == \A k \in 1..MaxRetries : last.outs[k].kind = "ok" \/ Retryable(k)

\* The first attempt that does not fail retryably, MaxRetries when there is
\* none before it: the attempt at which one shared counter stops.
RECURSIVE StopsAt(_)
StopsAt(k) ==
  IF k >= MaxRetries THEN MaxRetries
  ELSE IF Retryable(k) THEN StopsAt(k + 1)
  ELSE k

(* C35 -- in synthesize_transcript a malformed LLM answer is retried like a
   transient error on the same attempt counter: over any mix of transient and
   parse failures the client makes one upstream call per attempt up to the
   first attempt that does not fail so, at most MaxRetries in all, sleeps 2^k
   seconds after each failed attempt k that is followed by another, and raises
   an error when attempt MaxRetries is a parse failure. *)
C35_ParseSharesCounter ==
  (OpenAIEnded /\ MixedFailures) =>
    LET n == StopsAt(1) IN
    /\ TheCall.upstream <= MaxRetries
    /\ TheCall.upstream = n
    /\ TheCall.sleeps = ExponentialSleeps(n - 1)
    /\ (n = MaxRetries /\ last.outs[n].kind = "json_decode_error") =>
         /\ last.how = "raise"
         /\ last.err = "openai_error_failed_to_parse_json"
         /\ last.val = None
    /\ last.outs[n].kind = "ok" <=> last.how = "return"

\* A transient error, then two malformed answers: three upstream calls, two
\* sleeps, and the parse error is raised.
C35_Witness ==
  /\ OpenAIEnded
  /\ last.outs[1].kind = "openai_api_error"
  /\ last.outs[2].kind = "json_decode_error"
  /\ last.outs[3].kind = "json_decode_error"
  /\ last.how = "raise"
  /\ last.err = "openai_error_failed_to_parse_json"
  /\ TheCall.upstream = MaxRetries
  /\ Len(TheCall.sleeps) = MaxRetries - 1

\* The number of characters of t from its first to its last non-blank one.
TrimmedLen(t) ==
  LET solid == {i \in 1..Len(t) : t[i] # " "} IN
  IF solid = {} THEN 0
  ELSE (CHOOSE i \in solid : \A j \in solid : j <= i)
         - (CHOOSE i \in solid : \A j \in solid : i <= j) + 1

(* C36 -- synthesize_transcript on a transcript that is empty or has fewer
   than 50 characters after trimming raises the validation error with no
   upstream call and no backoff sleep; on a transcript of 50 characters or
   more after trimming it does not raise the validation error and calls the
   upstream. *)
C36_Validation ==
  last.op = "openai_synthesize" =>
    LET n == TrimmedLen(last.transcript[1]) IN
    /\ n < MinTranscriptLen =>
         /\ last.how = "raise"
         /\ last.err = "value_error_transcript_too_short"
         /\ TheCall.upstream = 0
         /\ TheCall.sleeps = <<>>
         /\ last.val = None
    /\ n >= MinTranscriptLen =>
         /\ last.err # "value_error_transcript_too_short"
         /\ TheCall.upstream >= 1

\* A transcript of 53 characters, 49 after trimming, was rejected.
C36_Witness ==
  /\ last.op = "openai_synthesize"
  /\ Len(last.transcript[1]) > MinTranscriptLen
  /\ TrimmedLen(last.transcript[1]) = MinTranscriptLen - 1
  /\ last.how = "raise"
  /\ TheCall.upstream = 0

\* A transcript of exactly 50 characters after trimming was accepted and
\* answered at the first call.
C36_ExactlyMinimumPasses ==
  /\ last.op = "openai_synthesize"
  /\ TrimmedLen(last.transcript[1]) = MinTranscriptLen
  /\ last.how = "return"
  /\ TheCall.upstream = 1

\* The status writes of an invocation's last step.
EndsInvocation(p) == pc[p] # "idle" /\ pc'[p] = "idle"
ShortCircuit(p) == pc[p] = "s_check"

C37_LastWriteTerminal ==
  \A p \in Procs :
    /\ (EndsInvocation(p) /\ ~ShortCircuit(p)) =>
         (conv'.status = COMPLETED \/ conv'.status = FAILED)
    /\ (ShortCircuit(p) /\ pc'[p] = "idle") => conv' = conv
    /\ (pc[p] # "idle" /\ pc'[p] # "idle" /\ (pc'[p] # pc[p] \/ loc'[p] # loc[p])) =>
         (conv'.status = conv.status \/ conv'.status = TRANSCRIBING
            \/ conv'.status = SYNTHESIZING)

C37_NotLeftInFlight ==
  AllIdle => (conv.status # TRANSCRIBING /\ conv.status # SYNTHESIZING)

(* C37 -- every invocation of transcribe_audio or generate_synthesis that has
   passed its precondition checks terminates; the last status it writes is
   COMPLETED or FAILED; and when no invocation is under way the conversation
   is not in TRANSCRIBING or SYNTHESIZING. *)
C37_Terminates ==
  /\ \A p \in Procs : (pc[p] # "idle") ~> (pc[p] = "idle")
  /\ [][C37_LastWriteTerminal]_vars
  /\ [](C37_NotLeftInFlight)

\* Two invocations overlapped, the one that raised wrote FAILED last, and both
\* have ended.
C37_Witness ==
  /\ AllIdle
  /\ last.op = "synthesize"
  /\ last.how = "raise"
  /\ last.calls # <<>>
  /\ last.pre = None
  /\ conv.status = FAILED

\* The invocation that ended last completed its phase.
CompletedTranscription == last.op = "transcribe" /\ last.how = "return"
CompletedSynthesis == last.op = "synthesize" /\ last.how = "return"

(* C38 -- for a conversation with status COMPLETED between invocations, a
   Synthesis row exists exactly when the phase that completed last was
   synthesis: after a completed transcription there is no row, after a
   completed synthesis there is one. *)
C38_RowTellsPhase ==
  (AllIdle /\ conv.status = COMPLETED) =>
    /\ CompletedTranscription => ~syn.exists
    /\ CompletedSynthesis => syn.exists

\* transcribe_audio takes the all-providers-failed path in this step.
AllProvidersFail == last' # last /\ last'.op = "transcribe" /\ last'.err = "all_providers_failed"

C39_FailedAfterRealError ==
  AllProvidersFail =>
    LET calls == last'.calls
        n == Len(calls)
    IN
    /\ n >= 1
    /\ \A k \in 1..n : calls[k].err # ""
    /\ calls[n].provider = WHISPER
    /\ calls[n].upstream >= 1
    /\ conv'.status = FAILED
    /\ conv'.error_message =
         Some(<<"All transcription providers failed. Last error: ", calls[n].err>>)
    /\ conv'.error_message # Some(AllFailedMessage(None))
    /\ last'.val = conv'.error_message

(* C39 -- whenever transcribe_audio takes the all-providers-failed path, at
   least one provider call was made in that invocation and every call made
   failed; the last of them is a call of the Whisper client, which reached the
   upstream; and the error message recorded and raised cites the error of that
   call, never an absent one. *)
C39_FailureCitesProviderError == [][C39_FailedAfterRealError]_vars

\* Soniox, configured, was called and raised, then Whisper failed: the
\* conversation is FAILED with Whisper's error in the message.
C39_Witness ==
  /\ TranscribeEnded
  /\ last.err = "all_providers_failed"
  /\ Len(last.calls) = 2
  /\ last.calls[1].provider = SONIOX
  /\ last.calls[2].err = "openai_api_error"
  /\ conv.status = FAILED
  /\ conv.error_message = last.val

\* generate_synthesis was rejected for want of a transcript.
RejectedNoTranscript == SynthesisEnded /\ last.err = "no_transcript_available"

(* C40 -- whenever transcribe_audio has returned and left status COMPLETED,
   the stored transcript is non-empty, and a generate_synthesis invoked on a
   conversation that transcription left COMPLETED is not rejected with the
   no-transcript error. *)
C40_CompletedHasTranscript ==
  /\ (AllIdle /\ CompletedTranscription /\ conv.status = COMPLETED) => ~NoTranscript(conv)
  /\ (RejectedNoTranscript /\ last.pre # None) => Before.conv.status # COMPLETED
====
